---- MODULE Spec2Model ----
(***************************************************************************)
(* dom-input-range: the mirror ("style clone") that is kept in sync with a *)
(* text input, its cache, its update scheduler, and the range wrapper that *)
(* queries it.                                                             *)
(*                                                                         *)
(* Two revisions of the mirror class are modelled side by side, selected   *)
(* by the variable "variant":                                              *)
(*   "InputStyleClone"        src/unnamed/part_001, lines 1-300            *)
(*   "InputStyleCloneElement" src/src/input-style-clone-element.ts,        *)
(*                            lines 256-531                                *)
(* Every handler is one atomic action (the program is single threaded and  *)
(* a WeakRef target cannot be collected in the middle of a job).  Handlers *)
(* are written as functions from a "world" record (the mutable part of the *)
(* heap plus the trace of what the handler did) to a world record, so that *)
(* a handler that calls another one composes them in source order.         *)
(***************************************************************************)
EXTENDS Integers, Sequences, FiniteSets, TLC

\* ---------------------------------------------------------------- bounds
\* number of mirror instances that can be constructed in one behaviour
MaxClones == 2

\* forceUpdate() is called on a mirror that is out of the document only
\* while its accumulated offsets are within this distance of 0
MaxDrift == 0

\* number of InputRange objects of the detach() revisions in one behaviour
MaxRanges == 1

\* number of nested calls the engine runs before it throws a RangeError
StackLimit == 6

\* the largest offset an InputRange is constructed with
MaxOffset == 3

\* how far below 0 the offsets given to an InputRange go
MaxUnder == 1

\* ------------------------------------------------------------ basic sets
Inputs == {"in1", "in2"}

CloneIds == 1..MaxClones

\* `undefined`: what CloneRegistry.get returns for a missing key
None == 0

\* the value of a style property that was never assigned on the mirror
Unset == -1

Variants == {"InputStyleClone", "InputStyleCloneElement"}

RangeIds == 1..MaxRanges

Offsets == (0 - MaxUnder)..MaxOffset

\* the revisions of InputRange: "input-range" is src/src/input-range.ts,
\* which queries the shared mirror of its input; "index" and "index_2" are
\* the two revisions in src/src/index.ts and "part_002" the one in
\* src/unnamed/part_002, which build a mirror of their own and have detach()
RangeRevisions == {"input-range", "index", "index_2", "part_002"}

\* the revisions whose ranges own their mirror
OwnMirrorRevisions == {"index", "index_2", "part_002"}

\* input.value is a sequence of characters
Values == {<<>>, <<"h", "i">>}

\* the style sheets the input can be under (see getComputedStyle)
StyleIds == {0, 1}

\* the places and scroll states the input can be in (see InputGeometry)
GeomIds == {0, 1}

\* where the document lays the mirror out before its transform is applied
NaturalIds == {0, 1}

\* targets of a document scroll / window resize event
EventTargets == {"document", "window", "body", "aside"} \cup Inputs

propertiesToCopy ==
  { "direction", "writingMode", "unicodeBidi", "textOrientation",
    "boxSizing",
    "borderTopWidth", "borderRightWidth", "borderBottomWidth",
    "borderLeftWidth", "borderStyle",
    "paddingTop", "paddingRight", "paddingBottom", "paddingLeft",
    "fontStyle", "fontVariant", "fontWeight", "fontStretch", "fontSize",
    "fontSizeAdjust", "lineHeight", "fontFamily",
    "textAlign", "textTransform", "textIndent", "textDecoration",
    "letterSpacing", "wordSpacing",
    "tabSize", "MozTabSize" }

\* propertiesToCopy of the mirror that the detach() revisions use
legacyPropertiesToCopy ==
  { "direction", "boxSizing", "width", "height", "overflowX", "overflowY",
    "borderTopWidth", "borderRightWidth", "borderBottomWidth",
    "borderLeftWidth", "borderStyle",
    "paddingTop", "paddingRight", "paddingBottom", "paddingLeft",
    "fontStyle", "fontVariant", "fontWeight", "fontStretch", "fontSize",
    "fontSizeAdjust", "lineHeight", "fontFamily",
    "textAlign", "textTransform", "textIndent", "textDecoration",
    "letterSpacing", "wordSpacing",
    "tabSize", "MozTabSize" }

\* style.overflowY = "scroll"
OverflowScroll == 2

\* style.overflow = "hidden"
OverflowHidden == 3

\* --------------------------------------------------------------- state
VARIABLES
  variant,     \* which revision of the mirror class is loaded
  alive,       \* alive[i]: the input is still resolvable (WeakRef.deref())
  value,       \* value[i]: input.value
  inputStyle,  \* inputStyle[i]: the style sheet in force on the input
  geom,        \* geom[i]: the input's position / scroll / scrollbar state
  registry,    \* CloneRegistry: input -> mirror id, None when absent
  clones,      \* clones[c]: the fields of mirror instance c
  last,        \* the handler that ran last, the trace of what it did, and
               \* whether it is a forceUpdate() that follows a forceUpdate()
               \* of the same mirror
  forLog,      \* forLog[i]: mirrors returned by for(i) since the last
               \* teardown of a mirror of i (at most the last two)
  foreign,     \* foreign[i]: a mirror of i was constructed directly, or
               \* disconnect() ran on a mirror of i while the cache held
               \* another one
  rangeRev,    \* which revision of InputRange (with detach()) is loaded
  isFirefox,   \* "mozInnerScreenX" in window
  ranges,      \* ranges[r]: the fields of InputRange r and of its mirror
  answer       \* what the query returned or threw, when the last step was a
               \* query of a range; NoAnswer otherwise

vars == <<variant, alive, value, inputStyle, geom, registry, clones, last,
          forLog, foreign, rangeRev, isFirefox, ranges, answer>>

\* ----------------------------------------------------- the host platform
Min(a, b) == IF a < b THEN a ELSE b

Max(a, b) == IF a > b THEN a ELSE b

\* window.getComputedStyle(input): every copied property, and the declared
\* height and width, in px or as an enumeration code.
getComputedStyle(i) ==
  [p \in propertiesToCopy \cup legacyPropertiesToCopy |->
     CASE p = "height" -> 4 + 2 * inputStyle[i]
       [] p = "width"  -> 10 + 2 * inputStyle[i]
       [] OTHER        -> inputStyle[i]]

\* how far a box of the input's size holding this text can be scrolled:
\* an empty text overflows nowhere
ScrollLimit(text) ==
  IF text = <<>> THEN [left |-> 0, top |-> 0] ELSE [left |-> 1, top |-> 2]

\* input.getBoundingClientRect(), input.scrollTop/Left and the thickness of
\* the scrollbars the engine takes out of the input's client box.
InputGeometry(i) ==
  IF geom[i] = 0
    THEN [left |-> 0, top |-> 0, scrollLeft |-> 0, scrollTop |-> 0,
          barW |-> 0, barH |-> 0]
    ELSE [left |-> 3, top |-> 1,
          scrollLeft |-> Min(1, ScrollLimit(value[i]).left),
          scrollTop |-> Min(2, ScrollLimit(value[i]).top),
          barW |-> 1, barH |-> 0]

\* input.clientHeight / input.clientWidth: declared size less borders and
\* scrollbar
InputClientHeight(i) ==
  getComputedStyle(i)["height"] - getComputedStyle(i)["borderTopWidth"]
    - getComputedStyle(i)["borderBottomWidth"] - InputGeometry(i).barH

InputClientWidth(i) ==
  getComputedStyle(i)["width"] - getComputedStyle(i)["borderLeftWidth"]
    - getComputedStyle(i)["borderRightWidth"] - InputGeometry(i).barW

\* a style value as a length: a property never assigned has no width
Px(v) == IF v = Unset THEN 0 ELSE v

\* mirror.clientHeight / clientWidth for a declared size: the mirror has
\* overflow hidden (no scrollbar) and the borders copied so far; an element
\* that is not in the document has no box
CloneClientHeight(m, declared) ==
  IF m.attached
    THEN declared - Px(m.style["borderTopWidth"])
           - Px(m.style["borderBottomWidth"])
    ELSE 0

CloneClientWidth(m, declared) ==
  IF m.attached
    THEN declared - Px(m.style["borderLeftWidth"])
           - Px(m.style["borderRightWidth"])
    ELSE 0

\* where the mirror sits before its transform
NaturalPosition(n) ==
  IF n = 0 THEN [left |-> 0, top |-> 4] ELSE [left |-> 5, top |-> 9]

\* mirror.getBoundingClientRect(): natural position moved by the transform
\* that the last layout pass wrote; all zero for an element that is not in
\* the document
CloneRect(m) ==
  IF m.attached
    THEN [left |-> NaturalPosition(m.natural).left + m.transformX,
          top  |-> NaturalPosition(m.natural).top + m.transformY]
    ELSE [left |-> 0, top |-> 0]

\* mirror.scrollTop / scrollLeft after the assignment of the input's: the
\* setter stops at the end of the mirror's own content and does nothing on
\* an element that is not in the document
ScrollTopSet(m, position) ==
  IF m.attached THEN Min(position, ScrollLimit(m.text).top) ELSE m.scrollTop

ScrollLeftSet(m, position) ==
  IF m.attached THEN Min(position, ScrollLimit(m.text).left) ELSE m.scrollLeft

\* Node.contains for the targets of the model: body holds every input, an
\* input contains itself, aside holds none
Contains(target, i) == target = "body" \/ target = i

\* no query of a range has answered in the last step
NoAnswer == [kind |-> "none", error |-> "", rects |-> <<>>, text |-> <<>>]

\* ------------------------------------------------------------ the mirror
\* the fields of an instance before its constructor has run
Unborn ==
  [born |-> FALSE, input |-> "in1", attached |-> FALSE,
   styleObserver |-> FALSE, resizeObserver |-> FALSE,
   documentListener |-> FALSE, windowListener |-> FALSE,
   inputListener |-> FALSE, listeners |-> {},
   isLayoutUpdating |-> FALSE, frames |-> 0,
   style |-> [p \in propertiesToCopy |-> Unset],
   text |-> <<>>, height |-> Unset, width |-> Unset,
   xOffset |-> 0, yOffset |-> 0, transformX |-> 0, transformY |-> 0,
   scrollTop |-> 0, scrollLeft |-> 0, natural |-> 0]

\* the world a handler starts from
World == [clones |-> clones, registry |-> registry, trace |-> <<>>]

Log(W, e) == [W EXCEPT !.trace = Append(@, e)]

\* #input / #inputRef.deref()
Resolvable(W, c) == alive[W.clones[c].input]

\* disconnect() that leaves the document and window listeners registered
disconnectKeepingListeners(W, c) ==
  LET i  == W.clones[c].input
      W1 == [W EXCEPT !.clones[c].attached = FALSE,
                      !.clones[c].styleObserver = FALSE,
                      !.clones[c].resizeObserver = FALSE]
      W2 == IF alive[i]
              THEN [W1 EXCEPT !.clones[c].inputListener = FALSE,
                              !.registry[i] = None]
              ELSE W1
  IN  Log(W2, "teardown")

\* disconnect() that leaves the mirror in CloneRegistry
disconnectKeepingEntry(W, c) ==
  LET i  == W.clones[c].input
      W1 == [W EXCEPT !.clones[c].attached = FALSE,
                      !.clones[c].styleObserver = FALSE,
                      !.clones[c].resizeObserver = FALSE,
                      !.clones[c].documentListener = FALSE,
                      !.clones[c].windowListener = FALSE]
      W2 == IF alive[i]
              THEN [W1 EXCEPT !.clones[c].inputListener = FALSE]
              ELSE W1
  IN  Log(W2, "teardown")

\* disconnect() of InputStyleClone; the body of disconnectedCallback() of
\* InputStyleCloneElement is the same statement for statement
disconnect(W, c) ==
  LET i  == W.clones[c].input
      W1 == [W EXCEPT !.clones[c].attached = FALSE,
                      !.clones[c].styleObserver = FALSE,
                      !.clones[c].resizeObserver = FALSE,
                      !.clones[c].documentListener = FALSE,
                      !.clones[c].windowListener = FALSE]
      W2 == IF alive[i]
              THEN [W1 EXCEPT !.clones[c].inputListener = FALSE,
                              !.registry[i] = None]
              ELSE W1
  IN  Log(W2, "teardown")

\* Element.remove() on an InputStyleCloneElement: the element leaves its
\* container, and disconnectedCallback runs if it was connected
remove(W, c) ==
  IF W.clones[c].attached THEN disconnect(W, c) ELSE W

\* the clean-up of #usingInput with a disconnect() that runs itself once
\* more
cleanUpTwice(W, c) ==
  IF variant = "InputStyleClone"
    THEN disconnect(disconnect(W, c), c)
    ELSE remove(remove(W, c), c)

\* what #usingInput does when the input is gone
cleanUp(W, c) ==
  IF variant = "InputStyleClone" THEN disconnect(W, c) ELSE remove(W, c)

\* #usingInput that runs fn without looking at the input
usingInputUnchecked(W, c, result) == result

\* #usingInput(fn): fn's result when the input resolves, clean up otherwise
usingInput(W, c, result) ==
  IF Resolvable(W, c) THEN result ELSE cleanUp(W, c)

\* #updateLayout that computes the offset from the two boxes alone, without
\* the offset accumulated so far
updateLayoutFromZero(W, c) ==
  LET m  == W.clones[c]
      g  == InputGeometry(m.input)
      st == getComputedStyle(m.input)
      x  == g.left - CloneRect(m).left
      y  == g.top - CloneRect(m).top
  IN  usingInput(W, c,
        Log(Log([W EXCEPT !.clones[c].height = st["height"],
                          !.clones[c].width = st["width"],
                          !.clones[c].xOffset = x,
                          !.clones[c].yOffset = y,
                          !.clones[c].transformX = x,
                          !.clones[c].transformY = y,
                          !.clones[c].scrollTop = ScrollTopSet(m, g.scrollTop),
                          !.clones[c].scrollLeft =
                            ScrollLeftSet(m, g.scrollLeft)],
                "layout"), "update"))

\* #updateLayout that declares the input's size without re-adjusting it
updateLayoutUncorrected(W, c) ==
  LET m  == W.clones[c]
      g  == InputGeometry(m.input)
      st == getComputedStyle(m.input)
      x  == m.xOffset + g.left - CloneRect(m).left
      y  == m.yOffset + g.top - CloneRect(m).top
  IN  usingInput(W, c,
        Log(Log([W EXCEPT !.clones[c].height = st["height"],
                          !.clones[c].width = st["width"],
                          !.clones[c].xOffset = x,
                          !.clones[c].yOffset = y,
                          !.clones[c].transformX = x,
                          !.clones[c].transformY = y,
                          !.clones[c].scrollTop = ScrollTopSet(m, g.scrollTop),
                          !.clones[c].scrollLeft =
                            ScrollLeftSet(m, g.scrollLeft)],
                "layout"), "update"))

\* #updateLayout that leaves the mirror's scroll position alone
updateLayoutNoScroll(W, c) ==
  LET m  == W.clones[c]
      i  == m.input
      st == getComputedStyle(i)
      g  == InputGeometry(i)
      dh == InputClientHeight(i) - CloneClientHeight(m, st["height"])
      dw == InputClientWidth(i) - CloneClientWidth(m, st["width"])
      x  == m.xOffset + g.left - CloneRect(m).left
      y  == m.yOffset + g.top - CloneRect(m).top
  IN  usingInput(W, c,
        Log(Log([W EXCEPT !.clones[c].height = st["height"] + dh,
                          !.clones[c].width = st["width"] + dw,
                          !.clones[c].xOffset = x,
                          !.clones[c].yOffset = y,
                          !.clones[c].transformX = x,
                          !.clones[c].transformY = y],
                "layout"), "update"))

\* #updateLayout that adds the input's position to the offset without
\* taking the mirror's own position off
updateLayoutAbsolute(W, c) ==
  LET m  == W.clones[c]
      g  == InputGeometry(m.input)
      st == getComputedStyle(m.input)
  IN  usingInput(W, c,
        Log(Log([W EXCEPT !.clones[c].height = st["height"],
                          !.clones[c].width = st["width"],
                          !.clones[c].xOffset = m.xOffset + g.left,
                          !.clones[c].yOffset = m.yOffset + g.top,
                          !.clones[c].transformX = m.xOffset + g.left,
                          !.clones[c].transformY = m.yOffset + g.top,
                          !.clones[c].scrollTop = ScrollTopSet(m, g.scrollTop),
                          !.clones[c].scrollLeft =
                            ScrollLeftSet(m, g.scrollLeft)],
                "layout"), "update"))

\* #updateLayout that dispatches no update event
updateLayoutSilent(W, c) ==
  LET g == InputGeometry(W.clones[c].input)
  IN  usingInput(W, c,
        Log([W EXCEPT !.clones[c].scrollTop =
                        ScrollTopSet(W.clones[c], g.scrollTop),
                      !.clones[c].scrollLeft =
                        ScrollLeftSet(W.clones[c], g.scrollLeft)],
            "layout"))

\* #updateLayout()
updateLayout(W, c) ==
  LET m  == W.clones[c]
      i  == m.input
      st == getComputedStyle(i)
      g  == InputGeometry(i)
      dh == InputClientHeight(i) - CloneClientHeight(m, st["height"])
      dw == InputClientWidth(i) - CloneClientWidth(m, st["width"])
      h  == IF dh # 0 THEN st["height"] + dh ELSE st["height"]
      w  == IF dw # 0 THEN st["width"] + dw ELSE st["width"]
      x  == m.xOffset + g.left - CloneRect(m).left
      y  == m.yOffset + g.top - CloneRect(m).top
  IN  usingInput(W, c,
        Log(Log([W EXCEPT !.clones[c].height = h,
                          !.clones[c].width = w,
                          !.clones[c].xOffset = x,
                          !.clones[c].yOffset = y,
                          !.clones[c].transformX = x,
                          !.clones[c].transformY = y,
                          !.clones[c].scrollTop = ScrollTopSet(m, g.scrollTop),
                          !.clones[c].scrollLeft =
                            ScrollLeftSet(m, g.scrollLeft)],
                "layout"), "update"))

\* #requestUpdateLayout without the #isLayoutUpdating guard
requestUpdateLayoutUnguarded(W, c) ==
  Log([W EXCEPT !.clones[c].isLayoutUpdating = TRUE,
                !.clones[c].frames = @ + 1],
      "requested")

\* #requestUpdateLayout(): queue one animation-frame callback unless one is
\* already pending
requestUpdateLayout(W, c) ==
  IF W.clones[c].isLayoutUpdating
    THEN Log(W, "dropped")
    ELSE Log([W EXCEPT !.clones[c].isLayoutUpdating = TRUE,
                       !.clones[c].frames = @ + 1],
             "requested")

\* #updateStyles that lays out at once instead of requesting a frame
updateStylesThenLayout(W, c) ==
  LET st == getComputedStyle(W.clones[c].input)
  IN  usingInput(W, c,
        updateLayout(
          Log([W EXCEPT !.clones[c].style = [p \in propertiesToCopy |-> st[p]]],
              "style"),
          c))

\* #updateStyles()
updateStyles(W, c) ==
  LET st == getComputedStyle(W.clones[c].input)
  IN  usingInput(W, c,
        requestUpdateLayout(
          Log([W EXCEPT !.clones[c].style = [p \in propertiesToCopy |-> st[p]]],
              "style"),
          c))

\* #updateText that lays out without writing the text
updateTextLayoutOnly(W, c) ==
  usingInput(W, c,
    IF variant = "InputStyleClone"
      THEN updateLayout(W, c)
      ELSE requestUpdateLayout(W, c))

\* #updateText that dispatches an update event of its own after the text is
\* written, before it lays out
updateTextNotifying(W, c) ==
  LET W1 == Log(Log([W EXCEPT !.clones[c].text = value[W.clones[c].input]],
                    "text"), "update")
  IN  usingInput(W, c,
        IF variant = "InputStyleClone"
          THEN updateLayout(W1, c)
          ELSE requestUpdateLayout(W1, c))

\* #updateText(): InputStyleClone lays out at once, InputStyleCloneElement
\* goes through the animation frame
updateText(W, c) ==
  LET W1 == Log([W EXCEPT !.clones[c].text = value[W.clones[c].input]],
                "text")
  IN  usingInput(W, c,
        IF variant = "InputStyleClone"
          THEN updateLayout(W1, c)
          ELSE requestUpdateLayout(W1, c))

\* forceUpdate()
forceUpdate(W, c) == updateText(updateStyles(W, c), c)

\* #onDocumentScrollOrResize that forwards every event
onDocumentScrollOrResizeUnfiltered(W, c, target) ==
  usingInput(W, c, requestUpdateLayout(W, c))

\* #onDocumentScrollOrResize whose containment test leaves the input itself
\* out
onDocumentScrollOrResizeStrict(W, c, target) ==
  usingInput(W, c,
    IF \/ target = "document"
       \/ target = "window"
       \/ (Contains(target, W.clones[c].input) /\ target # W.clones[c].input)
      THEN requestUpdateLayout(W, c)
      ELSE W)

\* #onDocumentScrollOrResize(event)
onDocumentScrollOrResize(W, c, target) ==
  usingInput(W, c,
    IF \/ target = "document"
       \/ target = "window"
       \/ Contains(target, W.clones[c].input)
      THEN requestUpdateLayout(W, c)
      ELSE W)

\* a frame callback that forgets to clear #isLayoutUpdating
frameCallbackKeepingFlag(W, c) ==
  updateLayout([W EXCEPT !.clones[c].frames = @ - 1], c)

\* the callback given to requestAnimationFrame
frameCallback(W, c) ==
  LET W1 == updateLayout([W EXCEPT !.clones[c].frames = @ - 1], c)
  IN  [W1 EXCEPT !.clones[c].isLayoutUpdating = FALSE]

\* new InputStyleClone(input); for InputStyleCloneElement the constructor
\* followed by the connectedCallback that appendChild triggers
construct(W, c, i) ==
  LET W1 == [W EXCEPT !.clones[c] =
                        [Unborn EXCEPT !.born = TRUE, !.input = i,
                                       !.attached = TRUE]]
      W2 == updateText(updateStyles(W1, c), c)
  IN  [W2 EXCEPT !.clones[c].styleObserver = TRUE,
                 !.clones[c].resizeObserver = TRUE,
                 !.clones[c].documentListener = TRUE,
                 !.clones[c].windowListener = TRUE,
                 !.clones[c].inputListener = TRUE]

\* the id the next constructed instance gets
FreshId(W) ==
  IF \E c \in CloneIds : ~W.clones[c].born
    THEN CHOOSE c \in CloneIds :
           ~W.clones[c].born /\ \A d \in CloneIds : d < c => W.clones[d].born
    ELSE None

\* for() that builds a mirror but never stores it in the registry
forWithoutSet(W, i) ==
  IF W.registry[i] # None \/ FreshId(W) = None
    THEN [world |-> W, result |-> W.registry[i]]
    ELSE [world |-> construct(W, FreshId(W), i), result |-> FreshId(W)]

\* for() that builds a new mirror although the registry holds one
forWithoutGet(W, i) ==
  IF FreshId(W) = None
    THEN [world |-> W, result |-> W.registry[i]]
    ELSE [world |-> [construct(W, FreshId(W), i)
                       EXCEPT !.registry[i] = FreshId(W)],
          result |-> FreshId(W)]

\* static for(input): the result is W.result
for(W, i) ==
  IF W.registry[i] # None
    THEN [world |-> W, result |-> W.registry[i]]
    ELSE LET c  == FreshId(W)
             W1 == construct(W, c, i)
         IN  [world |-> [W1 EXCEPT !.registry[i] = c], result |-> c]

\* ------------------------------------------- dispatch of an input event
\* where another listener of the input event is registered: capturing on an
\* ancestor of the input, on the input itself before or after the mirror
\* was constructed (not capturing), or on an ancestor for the bubble phase
ListenerPlaces == {"capture", "before", "after", "bubble"}

\* the capture flag the mirror registers #onInput with
OnInputCapture == variant = "InputStyleClone"

\* the order of dispatch: capturing listeners of the ancestors, then at the
\* target the capturing listeners and after them the others in the order of
\* their registration, then the bubbling listeners of the ancestors
RunsBeforeMirror(place) ==
  \/ place = "capture"
  \/ place = "before" /\ ~OnInputCapture

\* the mirror holds the input's text, content box, position and scroll
UpToDate(m) ==
  LET g == InputGeometry(m.input)
  IN  /\ m.text = value[m.input]
      /\ CloneClientHeight(m, m.height) = InputClientHeight(m.input)
      /\ CloneClientWidth(m, m.width) = InputClientWidth(m.input)
      /\ CloneRect(m) = [left |-> g.left, top |-> g.top]
      /\ m.scrollTop = g.scrollTop /\ m.scrollLeft = g.scrollLeft

\* another listener of the event looks at the mirror
otherListener(W, c) ==
  Log(W, IF UpToDate(W.clones[c]) THEN "listener:fresh" ELSE "listener:stale")

\* input.dispatchEvent(new Event("input")) with the mirror's #onInput and
\* one other listener registered
dispatchInput(W, c, place) ==
  IF RunsBeforeMirror(place)
    THEN updateText(otherListener(W, c), c)
    ELSE otherListener(updateText(W, c), c)

\* ------------------------------- the mirror of input-style-clone.ts
\* The InputStyleClone that extends EventTarget: no registry, no animation
\* frame, an IntersectionObserver for layout, and its listeners on the
\* input itself.

\* target.addEventListener(type, callback, capture): a registration is
\* identified by its type and its capture flag (the callback is the
\* instance's own bound handler of that type)
addEventListener(L, type, capture) == L \cup {<<type, capture>>}

\* target.removeEventListener(type, callback, capture): removes the
\* registration with the same type and capture flag, if there is one
removeEventListener(L, type, capture) == L \ {<<type, capture>>}

\* a listener of the type is registered on the input: an event dispatched
\* on the input reaches it in the target phase, capturing or not
Listens(m, type) == \E capture \in BOOLEAN : <<type, capture>> \in m.listeners

\* #updateScroll: nothing without the input
updateScroll(W, c) ==
  LET m == W.clones[c]
      g == InputGeometry(m.input)
  IN  IF Resolvable(W, c)
        THEN Log([W EXCEPT !.clones[c].scrollTop = ScrollTopSet(m, g.scrollTop),
                           !.clones[c].scrollLeft =
                             ScrollLeftSet(m, g.scrollLeft)],
                 "update")
        ELSE W

\* #updateLayout() of input-style-clone.ts: size with the correction always
\* applied, accumulated offset, then #updateScroll
cloneUpdateLayout(W, c) ==
  LET m  == W.clones[c]
      i  == m.input
      st == getComputedStyle(i)
      g  == InputGeometry(i)
      dh == InputClientHeight(i) - CloneClientHeight(m, st["height"])
      dw == InputClientWidth(i) - CloneClientWidth(m, st["width"])
      x  == m.xOffset + g.left - CloneRect(m).left
      y  == m.yOffset + g.top - CloneRect(m).top
  IN  IF Resolvable(W, c)
        THEN updateScroll(
               Log([W EXCEPT !.clones[c].height = st["height"] + dh,
                             !.clones[c].width = st["width"] + dw,
                             !.clones[c].xOffset = x,
                             !.clones[c].yOffset = y,
                             !.clones[c].transformX = x,
                             !.clones[c].transformY = y],
                   "layout"),
               c)
        ELSE W

\* the properties input-style-clone.ts copies
clonePropertiesToCopy ==
  { "direction", "boxSizing", "borderTopWidth", "borderRightWidth",
    "borderBottomWidth", "borderLeftWidth", "borderStyle", "paddingTop",
    "paddingRight", "paddingBottom", "paddingLeft", "fontStyle",
    "fontVariant", "fontWeight", "fontStretch", "fontSize",
    "fontSizeAdjust", "lineHeight", "fontFamily", "textAlign",
    "textTransform", "textIndent", "textDecoration", "letterSpacing",
    "wordSpacing", "tabSize", "MozTabSize" }

\* #updateStyles() of input-style-clone.ts: copy, then lay out at once
cloneUpdateStyles(W, c) ==
  LET st == getComputedStyle(W.clones[c].input)
  IN  IF Resolvable(W, c)
        THEN cloneUpdateLayout(
               Log([W EXCEPT !.clones[c].style =
                      [p \in propertiesToCopy |->
                         IF p \in clonePropertiesToCopy THEN st[p] ELSE @[p]]],
                   "style"),
               c)
        ELSE W

\* #updateText of input-style-clone.ts: the input's value, or "" without
\* the input, then #updateScroll
cloneUpdateText(W, c) ==
  LET i == W.clones[c].input
  IN  updateScroll(
        Log([W EXCEPT !.clones[c].text = IF alive[i] THEN value[i] ELSE <<>>],
            "text"),
        c)

\* forceUpdate() of input-style-clone.ts
cloneForceUpdate(W, c) == cloneUpdateText(cloneUpdateStyles(W, c), c)

\* new InputStyleClone(input) of input-style-clone.ts
cloneConstruct(W, c, i) ==
  LET W1 == [W EXCEPT !.clones[c] =
                        [Unborn EXCEPT !.born = TRUE, !.input = i,
                                       !.attached = TRUE]]
      W2 == cloneUpdateText(cloneUpdateStyles(W1, c), c)
  IN  [W2 EXCEPT !.clones[c].styleObserver = TRUE,
                 !.clones[c].resizeObserver = TRUE,
                 !.clones[c].listeners =
                   addEventListener(addEventListener(@, "scroll", TRUE),
                                    "input", FALSE)]

\* detach() of input-style-clone.ts: the listeners are removed from the
\* input if it resolves
cloneDetach(W, c) ==
  LET W1 == [W EXCEPT !.clones[c].styleObserver = FALSE,
                      !.clones[c].resizeObserver = FALSE,
                      !.clones[c].attached = FALSE]
      W2 == IF Resolvable(W, c)
              THEN [W1 EXCEPT !.clones[c].listeners =
                      removeEventListener(
                        removeEventListener(@, "scroll", TRUE),
                        "input", TRUE)]
              ELSE W1
  IN  Log(W2, "teardown")

\* ------------------------------------------------------------- actions
Commit(W, op, c) ==
  /\ clones' = W.clones
  /\ registry' = W.registry
  /\ last' = [op |-> op, clone |-> c, trace |-> W.trace,
               again |-> op = "forceUpdate" /\ last.op = op
                           /\ last.clone = c]
  /\ answer' = NoAnswer
  /\ UNCHANGED <<rangeRev, isFirefox, ranges>>

Remember(i, c) ==
  forLog' = [forLog EXCEPT ![i] =
               IF Len(@) < 2 THEN Append(@, c) ELSE <<@[2], c>>]

Forget(i) == forLog' = [forLog EXCEPT ![i] = <<>>]

\* InputStyleClone.for(input) called by any client
For(i) ==
  /\ alive[i]
  /\ registry[i] # None \/ FreshId(World) # None
  /\ LET r == for(World, i)
     IN  Commit(r.world, "for", r.result) /\ Remember(i, r.result)
  /\ UNCHANGED <<variant, alive, value, inputStyle, geom, foreign>>

\* a rect or string query on an InputRange over input i: the range holds
\* the input, and every query goes through for(input) (get #styleClone)
Query(i) ==
  /\ alive[i]
  /\ registry[i] # None \/ FreshId(World) # None
  /\ LET r == for(World, i)
     IN  Commit(r.world, "query", r.result) /\ Remember(i, r.result)
  /\ UNCHANGED <<variant, alive, value, inputStyle, geom, foreign>>

\* new InputStyleClone(input) called by a client
New(i) ==
  /\ alive[i]
  /\ FreshId(World) # None
  /\ Commit(construct(World, FreshId(World), i), "new", FreshId(World))
  /\ foreign' = [foreign EXCEPT ![i] = TRUE]
  /\ UNCHANGED <<variant, alive, value, inputStyle, geom, forLog>>

\* clone.disconnect() called by a client (clone.remove() for the element)
Disconnect(c) ==
  /\ clones[c].born
  /\ Commit(IF variant = "InputStyleClone"
              THEN disconnect(World, c) ELSE remove(World, c),
            "disconnect", c)
  /\ Forget(clones[c].input)
  /\ foreign' = [foreign EXCEPT ![clones[c].input] =
                   @ \/ (alive[clones[c].input]
                         /\ registry[clones[c].input] \notin {None, c})]
  /\ UNCHANGED <<variant, alive, value, inputStyle, geom>>

\* clone.forceUpdate() called by a client
ForceUpdate(c) ==
  /\ clones[c].born
  /\ \/ clones[c].attached
     \/ /\ clones[c].xOffset <= MaxDrift
        /\ clones[c].yOffset <= MaxDrift
  /\ Commit(forceUpdate(World, c), "forceUpdate", c)
  /\ UNCHANGED <<variant, alive, value, inputStyle, geom, forLog, foreign>>

\* the MutationObserver callback: its records keep the input alive
StyleMutation(c) ==
  /\ clones[c].styleObserver
  /\ alive[clones[c].input]
  /\ Commit(updateStyles(World, c), "styleMutation", c)
  /\ UNCHANGED <<variant, alive, value, inputStyle, geom, forLog, foreign>>

\* the ResizeObserver callback: its entries keep the input alive
ElementResize(c) ==
  /\ clones[c].resizeObserver
  /\ alive[clones[c].input]
  /\ Commit(requestUpdateLayout(World, c), "elementResize", c)
  /\ UNCHANGED <<variant, alive, value, inputStyle, geom, forLog, foreign>>

\* a scroll event captured at the document
DocumentScroll(c, target) ==
  /\ clones[c].documentListener
  /\ target # "window"
  /\ target \in Inputs => alive[target]
  /\ Commit(onDocumentScrollOrResize(World, c, target), "scroll", c)
  /\ UNCHANGED <<variant, alive, value, inputStyle, geom, forLog, foreign>>

\* a resize event of the window
WindowResize(c) ==
  /\ clones[c].windowListener
  /\ Commit(onDocumentScrollOrResize(World, c, "window"), "resize", c)
  /\ UNCHANGED <<variant, alive, value, inputStyle, geom, forLog, foreign>>

\* an input handler that writes the text the mirror held back to the input
OnInputWritingBack(c) ==
  /\ clones[c].inputListener
  /\ alive[clones[c].input]
  /\ Commit(updateText(World, c), "input", c)
  /\ value' = [value EXCEPT ![clones[c].input] = clones[c].text]
  /\ UNCHANGED <<variant, alive, inputStyle, geom, forLog, foreign>>

\* an input event dispatched on the input
OnInput(c) ==
  /\ clones[c].inputListener
  /\ alive[clones[c].input]
  /\ Commit(updateText(World, c), "input", c)
  /\ UNCHANGED <<variant, alive, value, inputStyle, geom, forLog, foreign>>

\* the browser runs a queued animation-frame callback
Frame(c) ==
  /\ clones[c].frames > 0
  /\ Commit(frameCallback(World, c), "frame", c)
  /\ UNCHANGED <<variant, alive, value, inputStyle, geom, forLog, foreign>>

\* an input event dispatched on the input while another listener of the
\* event is registered at the place
DispatchInput(c, place) ==
  /\ clones[c].inputListener
  /\ alive[clones[c].input]
  /\ Commit(dispatchInput(World, c, place), "input", c)
  /\ UNCHANGED <<variant, alive, value, inputStyle, geom, forLog, foreign>>

\* new InputStyleClone(input) of input-style-clone.ts called by a client
CloneNew(i) ==
  /\ alive[i]
  /\ FreshId(World) # None
  /\ Commit(cloneConstruct(World, FreshId(World), i), "new", FreshId(World))
  /\ UNCHANGED <<variant, alive, value, inputStyle, geom, forLog, foreign>>

\* clone.detach() called by a client
CloneDetach(c) ==
  /\ clones[c].born
  /\ Commit(cloneDetach(World, c), "disconnect", c)
  /\ UNCHANGED <<variant, alive, value, inputStyle, geom, forLog, foreign>>

\* clone.forceUpdate() of input-style-clone.ts called by a client
CloneForceUpdate(c) ==
  /\ clones[c].born
  /\ \/ clones[c].attached
     \/ /\ clones[c].xOffset <= MaxDrift
        /\ clones[c].yOffset <= MaxDrift
  /\ Commit(cloneForceUpdate(World, c), "forceUpdate", c)
  /\ UNCHANGED <<variant, alive, value, inputStyle, geom, forLog, foreign>>

\* the MutationObserver callback of input-style-clone.ts
CloneStyleMutation(c) ==
  /\ clones[c].styleObserver
  /\ alive[clones[c].input]
  /\ Commit(cloneUpdateStyles(World, c), "styleMutation", c)
  /\ UNCHANGED <<variant, alive, value, inputStyle, geom, forLog, foreign>>

\* the IntersectionObserver callback of input-style-clone.ts
CloneIntersection(c) ==
  /\ clones[c].resizeObserver
  /\ alive[clones[c].input]
  /\ Commit(cloneUpdateLayout(World, c), "elementResize", c)
  /\ UNCHANGED <<variant, alive, value, inputStyle, geom, forLog, foreign>>

\* a scroll event dispatched on the input
CloneOnScroll(c) ==
  /\ Listens(clones[c], "scroll")
  /\ alive[clones[c].input]
  /\ Commit(updateScroll(World, c), "scroll", c)
  /\ UNCHANGED <<variant, alive, value, inputStyle, geom, forLog, foreign>>

\* an input event dispatched on the input
CloneOnInput(c) ==
  /\ Listens(clones[c], "input")
  /\ alive[clones[c].input]
  /\ Commit(cloneUpdateText(World, c), "input", c)
  /\ UNCHANGED <<variant, alive, value, inputStyle, geom, forLog, foreign>>

\* ------------------------------------------------------ the environment
Quiet(op) ==
  /\ last' = [op |-> op, clone |-> None, trace |-> <<>>, again |-> FALSE]
  /\ answer' = NoAnswer
  /\ UNCHANGED <<rangeRev, isFirefox, ranges>>

\* the input is garbage collected: the WeakRef empties and the WeakMap
\* entry keyed by it goes with it
Collect(i) ==
  /\ alive[i]
  /\ alive' = [alive EXCEPT ![i] = FALSE]
  /\ registry' = [registry EXCEPT ![i] = None]
  /\ Forget(i)
  /\ foreign' = [foreign EXCEPT ![i] = FALSE]
  /\ Quiet("collect")
  /\ UNCHANGED <<variant, value, inputStyle, geom, clones>>

\* input.value changes (typing, or a direct assignment)
SetValue(i, v) ==
  /\ alive[i]
  /\ value[i] # v
  /\ value' = [value EXCEPT ![i] = v]
  /\ Quiet("setValue")
  /\ UNCHANGED <<variant, alive, inputStyle, geom, registry, clones, forLog, foreign>>

\* the input's style changes
SetStyle(i, s) ==
  /\ alive[i]
  /\ inputStyle[i] # s
  /\ inputStyle' = [inputStyle EXCEPT ![i] = s]
  /\ Quiet("setStyle")
  /\ UNCHANGED <<variant, alive, value, geom, registry, clones, forLog, foreign>>

\* the input moves, scrolls or gains a scrollbar
SetGeometry(i, g) ==
  /\ alive[i]
  /\ geom[i] # g
  /\ geom' = [geom EXCEPT ![i] = g]
  /\ Quiet("setGeometry")
  /\ UNCHANGED <<variant, alive, value, inputStyle, registry, clones, forLog, foreign>>

\* the document lays the mirror's container out somewhere else
MoveClone(c, n) ==
  /\ clones[c].attached
  /\ clones[c].natural # n
  /\ clones' = [clones EXCEPT ![c].natural = n]
  /\ Quiet("moveClone")
  /\ UNCHANGED <<variant, alive, value, inputStyle, geom, registry, forLog,
                 foreign>>

\* ------------------------------------------- the mirror of the old ranges
\* The InputStyleClone that the revisions of InputRange with detach() build
\* for themselves (src/src/input-style-clone.ts, second revision): a div in
\* the body, position fixed, top 0, translateY(-100%).

\* input.scrollHeight: the content reaches at least scrollTop past the box
InputScrollHeight(i) == InputClientHeight(i) + InputGeometry(i).scrollTop

ZeroRect == [left |-> 0, top |-> 0, width |-> 0, height |-> 0]

\* the fields of the mirror before its constructor has run
NoStyleClone ==
  [attached |-> FALSE, isDetached |-> FALSE,
   mutationObserver |-> FALSE, resizeObserver |-> FALSE,
   text |-> <<>>,
   style |-> [p \in legacyPropertiesToCopy |-> Unset]]

\* input instanceof HTMLInputElement: in1 is a textarea, in2 a single-line
\* input
isInput(i) == i = "in2"

\* #updateStyles() that corrects the width of single-line inputs too
styleCloneUpdateStylesAnyInput(L, i) ==
  LET st == getComputedStyle(i)
      totalBorderWidth == st["borderLeftWidth"] + st["borderRightWidth"]
      width == IF isFirefox
                 THEN st["width"] - totalBorderWidth
                 ELSE InputClientWidth(i) + totalBorderWidth
      copied == [p \in legacyPropertiesToCopy |->
                   IF p = "width" /\ st["boxSizing"] = 1
                     THEN width ELSE st[p]]
      final == IF isFirefox
                 THEN IF InputScrollHeight(i) > st["height"]
                        THEN [copied EXCEPT !["overflowY"] = OverflowScroll]
                        ELSE copied
                 ELSE [copied EXCEPT !["overflowX"] = OverflowHidden,
                                     !["overflowY"] = OverflowHidden]
  IN  IF ~alive[i] THEN L ELSE [L EXCEPT !.style = final]

\* #updateStyles() of the old mirror; the revisions that take textareas
\* only have no isInput test
styleCloneUpdateStyles(L, i) ==
  LET st == getComputedStyle(i)
      totalBorderWidth == st["borderLeftWidth"] + st["borderRightWidth"]
      width == IF isFirefox
                 THEN st["width"] - totalBorderWidth
                 ELSE InputClientWidth(i) + totalBorderWidth
      copied == [p \in legacyPropertiesToCopy |->
                   IF ~isInput(i) /\ p = "width" /\ st["boxSizing"] = 1
                     THEN width ELSE st[p]]
      final == IF isFirefox
                 THEN IF InputScrollHeight(i) > st["height"]
                        THEN [copied EXCEPT !["overflowY"] = OverflowScroll]
                        ELSE copied
                 ELSE [copied EXCEPT !["overflowX"] = OverflowHidden,
                                     !["overflowY"] = OverflowHidden]
  IN  IF ~alive[i] THEN L ELSE [L EXCEPT !.style = final]

\* new InputStyleClone(input) of the old mirror
styleCloneConstruct(i) ==
  [styleCloneUpdateStyles([NoStyleClone EXCEPT !.attached = TRUE], i)
     EXCEPT !.mutationObserver = TRUE, !.resizeObserver = TRUE]

\* get cloneElement(): the text is refreshed on every retrieval
cloneElement(L, i) ==
  IF alive[i] THEN [L EXCEPT !.text = value[i]] ELSE L

\* detach() of the old mirror
styleCloneDetach(L) ==
  [L EXCEPT !.mutationObserver = FALSE, !.resizeObserver = FALSE,
            !.attached = FALSE, !.isDetached = TRUE]

\* cloneElement.getBoundingClientRect(): a div out of the document has no
\* box; in the document it is fixed at the left edge, one height above it
StyleCloneRect(L) ==
  IF L.attached
    THEN [left |-> 0, top |-> 0 - Px(L.style["height"]),
          width |-> Px(L.style["width"]), height |-> Px(L.style["height"])]
    ELSE ZeroRect

\* the box of the characters start..end of the mirror's text: the texts of
\* the model fit on one line, a character is 1px wide and 1px high
TextRect(L, start, end) ==
  [left   |-> StyleCloneRect(L).left + Px(L.style["borderLeftWidth"])
                + Px(L.style["paddingLeft"]) + start,
   top    |-> StyleCloneRect(L).top + Px(L.style["borderTopWidth"])
                + Px(L.style["paddingTop"]),
   width  |-> end - start,
   height |-> 1]

\* document.createRange(): collapsed at the start of the document
createRange == [onText |-> FALSE, start |-> 0, end |-> 0, error |-> ""]

\* range.setStart(textNode, offset)
setStart(rg, hasNode, len, offset) ==
  IF rg.error # "" THEN rg
  ELSE IF ~hasNode THEN [rg EXCEPT !.error = "TypeError"]
  ELSE IF offset < 0 \/ offset > len
    THEN [rg EXCEPT !.error = "IndexSizeError"]
  ELSE [onText |-> TRUE, start |-> offset,
        end |-> IF rg.onText /\ rg.end >= offset THEN rg.end ELSE offset,
        error |-> ""]

\* range.setEnd(textNode, offset)
setEnd(rg, hasNode, len, offset) ==
  IF rg.error # "" THEN rg
  ELSE IF ~hasNode THEN [rg EXCEPT !.error = "TypeError"]
  ELSE IF offset < 0 \/ offset > len
    THEN [rg EXCEPT !.error = "IndexSizeError"]
  ELSE [onText |-> TRUE, end |-> offset,
        start |-> IF rg.onText /\ rg.start <= offset THEN rg.start ELSE offset,
        error |-> ""]

\* Range.getClientRects() on the mirror: one box for a range in rendered
\* text (of no width when it is collapsed), none outside the document
RangeClientRects(L, rg) ==
  IF rg.onText /\ L.attached
    THEN <<TextRect(L, rg.start, rg.end)>>
    ELSE <<>>

\* Range.getBoundingClientRect() on the mirror
RangeBoundingClientRect(L, rg) ==
  IF RangeClientRects(L, rg) = <<>>
    THEN ZeroRect
    ELSE RangeClientRects(L, rg)[1]

\* offsetCloneRect(rect): the rect moved from the mirror onto the input
offsetCloneRect(L, i, rect) ==
  LET cloneRect == StyleCloneRect(L)
      g == InputGeometry(i)
  IN  IF ~alive[i] THEN ZeroRect
      ELSE [left   |-> rect.left - cloneRect.left + g.left - g.scrollLeft,
            top    |-> rect.top - cloneRect.top + g.top - g.scrollTop,
            width  |-> rect.width,
            height |-> rect.height]

\* ------------------------------------- the mirror of input-clone.ts
\* The InputStyleClone that shares one div per input through a module-level
\* WeakMap (`clones`, here the registry: the div of an input is named by the
\* instance that created it and lives in that instance's record) and that
\* cleans up in the getter of inputElement.

\* what a getter gives back: the world, the value (None for undefined) and
\* whether the call stack overflowed
Returned(W, result) == [world |-> W, result |-> result, thrown |-> FALSE]

Overflowed(W) == [world |-> Log(W, "RangeError"), result |-> None,
                  thrown |-> TRUE]

RECURSIVE weakInputElement(_, _, _)
RECURSIVE weakCloneElement(_, _, _)

\* get inputElement(), entered at the given depth of the call stack; the
\* result is the instance's id when the input resolves
weakInputElement(W, c, depth) ==
  LET i  == W.clones[c].input
      W1 == [W EXCEPT !.clones[c].styleObserver = FALSE,
                      !.clones[c].resizeObserver = FALSE]
      r  == weakCloneElement(W1, c, depth + 1)
  IN  IF depth > StackLimit THEN Overflowed(W)
      ELSE IF alive[i] THEN Returned(W, c)
      ELSE IF r.thrown THEN r
      ELSE IF r.result # None
        THEN Returned([r.world EXCEPT !.clones[r.result].attached = FALSE],
                      None)
        ELSE Returned(r.world, None)

\* get cloneElement(): the div of the input, with its text refreshed
weakCloneElement(W, c, depth) ==
  LET i == W.clones[c].input
      r == weakInputElement(W, c, depth + 1)
      d == r.world.registry[i]
  IN  IF depth > StackLimit THEN Overflowed(W)
      ELSE IF r.thrown THEN r
      ELSE IF r.result # None /\ d # None
        THEN Returned([r.world EXCEPT !.clones[d].text = value[i]], d)
        ELSE Returned(r.world, None)

\* #updateStyles() of input-clone.ts; the loop over propertiesToCopy is the
\* one of the old mirror
weakUpdateStyles(W, c) ==
  LET i  == W.clones[c].input
      r1 == weakCloneElement(W, c, 1)
      r2 == weakInputElement(r1.world, c, 1)
  IN  IF r1.thrown THEN r1.world
      ELSE IF r2.thrown THEN r2.world
      ELSE IF r1.result = None \/ r2.result = None THEN r2.world
      ELSE Log([r2.world EXCEPT !.clones[r1.result].style =
                  styleCloneUpdateStyles(NoStyleClone, i).style],
               "style")

\* new InputStyleClone(input) of input-clone.ts
weakConstruct(W, c, i) ==
  LET W1 == [W EXCEPT !.clones[c] = [Unborn EXCEPT !.born = TRUE,
                                                   !.input = i]]
      W2 == [W1 EXCEPT !.clones[c].attached = TRUE]
      W3 == weakUpdateStyles(W2, c)
  IN  IF W.registry[i] # None
        THEN W1
        ELSE [W3 EXCEPT !.registry[i] = c,
                        !.clones[c].styleObserver = TRUE,
                        !.clones[c].resizeObserver = TRUE]

\* new InputStyleClone(input) of input-clone.ts called by a client
WeakNew(i) ==
  /\ alive[i]
  /\ FreshId(World) # None
  /\ Commit(weakConstruct(World, FreshId(World), i), "new", FreshId(World))
  /\ UNCHANGED <<variant, alive, value, inputStyle, geom, forLog, foreign>>

\* the MutationObserver or ResizeObserver callback of an instance
WeakObserverCallback(c) ==
  /\ clones[c].styleObserver \/ clones[c].resizeObserver
  /\ alive[clones[c].input]
  /\ Commit(weakUpdateStyles(World, c), "styleMutation", c)
  /\ UNCHANGED <<variant, alive, value, inputStyle, geom, forLog, foreign>>

\* a client reads instance.inputElement
WeakInputElement(c) ==
  /\ clones[c].born
  /\ Commit(weakInputElement(World, c, 1).world, "inputElement", c)
  /\ UNCHANGED <<variant, alive, value, inputStyle, geom, forLog, foreign>>

\* a client reads instance.cloneElement
WeakCloneElement(c) ==
  /\ clones[c].born
  /\ Commit(weakCloneElement(World, c, 1).world, "cloneElement", c)
  /\ UNCHANGED <<variant, alive, value, inputStyle, geom, forLog, foreign>>

\* ------------------------------------------------- the old InputRange
\* the fields of a range before its constructor has run
NoRange ==
  [made |-> FALSE, detached |-> FALSE, input |-> "in1",
   startOffset |-> 0, endOffset |-> 0,
   styleClone |-> FALSE, clone |-> NoStyleClone]

Thrown(e) == [kind |-> "error", error |-> e, rects |-> <<>>, text |-> <<>>]

\* new DOMRectListLike(...rects), or the DOMRectList of a native range
DOMRectListLike(rects) ==
  [kind |-> "list", error |-> "", rects |-> rects, text |-> <<>>]

DOMRect(rect) ==
  [kind |-> "rect", error |-> "", rects |-> <<rect>>, text |-> <<>>]

\* the string a toString() returns
String(text) == [kind |-> "string", error |-> "", rects |-> <<>>, text |-> text]

\* the DocumentFragment a cloneContents() returns, by its text
DocumentFragment(text) ==
  [kind |-> "fragment", error |-> "", rects |-> <<>>, text |-> text]

MapRects(L, i, rects) ==
  [k \in 1..Len(rects) |-> offsetCloneRect(L, i, rects[k])]

\* new InputRange(element, startOffset, endOffset): the offsets are stored
\* as given; the revisions that own their mirror construct it here
InputRange(i, s, e) ==
  [made |-> TRUE, detached |-> FALSE, input |-> i,
   startOffset |-> s, endOffset |-> e,
   styleClone |-> rangeRev \in OwnMirrorRevisions,
   clone |-> IF rangeRev \in OwnMirrorRevisions
               THEN styleCloneConstruct(i) ELSE NoStyleClone]

\* selectionStart / selectionEnd of an input whose type has no selection
Null == 0 - 2

\* an argument that is not passed
Undefined == 0 - 3

\* what selectionStart and selectionEnd of the input i can be read as: null
\* or a position in the value
Selections(i) == {Null} \cup (0..Len(value[i]))

\* new InputRange(element, startOffset = 0, endOffset = startOffset): the
\* parameter defaults replace an undefined argument
InputRangeDefaults(i, s, e) ==
  LET startOffset == IF s = Undefined THEN 0 ELSE s
      endOffset   == IF e = Undefined THEN startOffset ELSE e
  IN  InputRange(i, startOffset, endOffset)

\* fromSelection that takes 0 for a null selectionEnd
fromSelectionZeroEnd(i, selectionStart, selectionEnd) ==
  InputRange(i, IF selectionStart = Null THEN 0 ELSE selectionStart,
                IF selectionEnd = Null THEN 0 ELSE selectionEnd)

\* static fromSelection(input)
fromSelection(i, selectionStart, selectionEnd) ==
  InputRangeDefaults(i,
    IF selectionStart = Null THEN Undefined ELSE selectionStart,
    IF selectionEnd = Null THEN Undefined ELSE selectionEnd)


\* #clampOffset(offset) of input-range.ts
clampOffset(i, offset) == Max(0, Min(offset, Len(value[i])))

\* setStartOffset that stores the offset as given
setStartOffsetRaw(R, offset) == [R EXCEPT !.startOffset = offset]

\* setStartOffset that moves the end along when the start passes it, as a
\* native Range does
setStartOffsetOrdered(R, offset) ==
  LET s == IF rangeRev = "input-range"
             THEN clampOffset(R.input, offset) ELSE offset
  IN  [R EXCEPT !.startOffset = s, !.endOffset = Max(@, s)]

\* setStartOffset(offset): clamped in input-range.ts, as given in index.ts
setStartOffset(R, offset) ==
  IF rangeRev = "input-range"
    THEN [R EXCEPT !.startOffset = clampOffset(R.input, offset)]
    ELSE [R EXCEPT !.startOffset = offset]

\* setEndOffset(offset)
setEndOffset(R, offset) ==
  IF rangeRev = "input-range"
    THEN [R EXCEPT !.endOffset = clampOffset(R.input, offset)]
    ELSE [R EXCEPT !.endOffset = offset]

\* collapse(toStart)
collapse(R, toStart) ==
  IF toStart THEN setEndOffset(R, R.startOffset)
             ELSE setStartOffset(R, R.endOffset)

\* detach(): part_002 also drops its reference to the mirror
detach(R) ==
  IF rangeRev \in {"index", "index_2"}
    THEN [R EXCEPT !.clone = styleCloneDetach(@), !.detached = TRUE]
    ELSE [R EXCEPT !.clone = IF R.styleClone THEN styleCloneDetach(@) ELSE @,
                   !.styleClone = FALSE,
                   !.detached = TRUE]

\* #createCloneRange(): the stored offsets are set on childNodes[0] of the
\* mirror L; input-range.ts and the first revision of index.ts do so only
\* when there is a text node, the second revision of index.ts always
createCloneRange(L, R) ==
  IF L.text # <<>> \/ rangeRev = "index_2"
    THEN setEnd(setStart(createRange, L.text # <<>>, Len(L.text),
                         R.startOffset),
                L.text # <<>>, Len(L.text), R.endOffset)
    ELSE createRange

\* the characters a native range holds
RangeText(text, rg) ==
  IF rg.onText THEN SubSeq(text, rg.start + 1, rg.end) ELSE <<>>

\* getBoundingClientRect() of index.ts
getBoundingClientRect(R) ==
  LET L  == cloneElement(R.clone, R.input)
      rg == createCloneRange(L, R)
  IN  [range  |-> [R EXCEPT !.clone = L],
       answer |-> IF rg.error # "" THEN Thrown(rg.error)
                  ELSE DOMRect(offsetCloneRect(L, R.input,
                                 RangeBoundingClientRect(L, rg)))]

\* getClientRects() of index.ts
getClientRectsIndex(R) ==
  LET L  == cloneElement(R.clone, R.input)
      rg == createCloneRange(L, R)
  IN  [range  |-> [R EXCEPT !.clone = L],
       answer |-> IF rg.error # "" THEN Thrown(rg.error)
                  ELSE DOMRectListLike(
                         MapRects(L, R.input, RangeClientRects(L, rg)))]

\* getClientRects() of part_002: an empty list when the mirror or the input
\* is missing; the offsets are set on childNodes[0] whatever it is
getClientRectsPart002(R) ==
  LET L  == IF R.styleClone THEN cloneElement(R.clone, R.input) ELSE R.clone
      rg == setEnd(setStart(createRange, L.text # <<>>, Len(L.text),
                            R.startOffset),
                   L.text # <<>>, Len(L.text), R.endOffset)
  IN  [range  |-> [R EXCEPT !.clone = L],
       answer |-> IF ~R.styleClone \/ ~alive[R.input]
                    THEN DOMRectListLike(<<>>)
                  ELSE IF rg.error # "" THEN Thrown(rg.error)
                  ELSE DOMRectListLike(
                         MapRects(L, R.input, RangeClientRects(L, rg)))]

getClientRects(R) ==
  IF rangeRev = "part_002" THEN getClientRectsPart002(R)
                           ELSE getClientRectsIndex(R)

\* cloneContents() of index.ts
cloneContents(R) ==
  LET L  == cloneElement(R.clone, R.input)
      rg == createCloneRange(L, R)
  IN  [range  |-> [R EXCEPT !.clone = L],
       answer |-> IF rg.error # "" THEN Thrown(rg.error)
                  ELSE DocumentFragment(RangeText(L.text, rg))]

\* the text Function.prototype.toString gives for #createCloneRange
FunctionSource == <<"#", "c", "r", "e", "a", "t", "e">>

\* toString() of index.ts: this.#createCloneRange.toString(), the method is
\* not called
toString(R) == [range |-> R, answer |-> String(FunctionSource)]

\* a query method of a range that owns its mirror
ownQuery(R, op) ==
  CASE op = "getClientRects"        -> getClientRects(R)
    [] op = "getBoundingClientRect" -> getBoundingClientRect(R)
    [] op = "cloneContents"         -> cloneContents(R)
    [] op = "toString"              -> toString(R)

\* the box of the characters start..end of the shared mirror's text: the
\* mirror is scrolled, its text moves with its scroll
MirrorTextRect(m, start, end) ==
  [left   |-> CloneRect(m).left + Px(m.style["borderLeftWidth"])
                + Px(m.style["paddingLeft"]) + start - m.scrollLeft,
   top    |-> CloneRect(m).top + Px(m.style["borderTopWidth"])
                + Px(m.style["paddingTop"]) - m.scrollTop,
   width  |-> end - start,
   height |-> 1]

\* Range.getClientRects() on the shared mirror
MirrorClientRects(m, rg) ==
  IF rg.onText /\ m.attached
    THEN <<MirrorTextRect(m, rg.start, rg.end)>>
    ELSE <<>>

\* a query method of input-range.ts on the mirror m that for() returned:
\* the result of the native range is returned as it is
sharedQuery(m, R, op) ==
  LET rg == createCloneRange(m, R)
  IN  IF rg.error # "" THEN Thrown(rg.error)
      ELSE CASE op = "getClientRects" ->
                  DOMRectListLike(MirrorClientRects(m, rg))
             [] op = "getBoundingClientRect" ->
                  DOMRect(IF MirrorClientRects(m, rg) = <<>>
                            THEN ZeroRect
                            ELSE MirrorClientRects(m, rg)[1])
             [] op = "cloneContents" ->
                  DocumentFragment(RangeText(m.text, rg))
             [] op = "toString" ->
                  String(RangeText(m.text, rg))

\* the query methods of a revision
QueryOps ==
  CASE rangeRev = "part_002" -> {"getClientRects"}
    [] OTHER -> {"getClientRects", "getBoundingClientRect", "cloneContents",
                 "toString"}

\* ------------------------------------------------ actions of the ranges
RangeOp(op, r) ==
  /\ last' = [op |-> op, clone |-> r, trace |-> <<>>, again |-> FALSE]
  /\ UNCHANGED <<variant, alive, value, inputStyle, geom, registry, clones,
                 forLog, foreign, rangeRev, isFirefox>>

\* a client constructs an InputRange
NewRange(r, i, s, e) ==
  /\ ~ranges[r].made
  /\ \A q \in RangeIds : q < r => ranges[q].made
  /\ alive[i]
  /\ ranges' = [ranges EXCEPT ![r] = InputRange(i, s, e)]
  /\ answer' = NoAnswer
  /\ RangeOp("newRange", r)

\* a client calls InputRange.fromSelection(input); the two properties are
\* read one by one, the end is not before the start when both are set
FromSelection(r, i, selectionStart, selectionEnd) ==
  /\ rangeRev = "input-range"
  /\ ~ranges[r].made
  /\ \A q \in RangeIds : q < r => ranges[q].made
  /\ alive[i]
  /\ selectionStart \in Selections(i) /\ selectionEnd \in Selections(i)
  /\ (selectionStart # Null /\ selectionEnd # Null)
       => selectionStart <= selectionEnd
  /\ ranges' = [ranges EXCEPT ![r] =
                  fromSelection(i, selectionStart, selectionEnd)]
  /\ answer' = NoAnswer
  /\ RangeOp("fromSelection", r)

\* a client calls range.detach()
Detach(r) ==
  /\ ranges[r].made
  /\ rangeRev \in OwnMirrorRevisions
  /\ ranges' = [ranges EXCEPT ![r] = detach(@)]
  /\ answer' = NoAnswer
  /\ RangeOp("detach", r)

\* a client calls range.setStartOffset(offset)
SetStartOffset(r, offset) ==
  /\ ranges[r].made
  /\ rangeRev # "part_002"
  /\ ranges' = [ranges EXCEPT ![r] = setStartOffset(@, offset)]
  /\ answer' = NoAnswer
  /\ RangeOp("setStartOffset", r)

\* a client calls range.setEndOffset(offset)
SetEndOffset(r, offset) ==
  /\ ranges[r].made
  /\ rangeRev # "part_002"
  /\ ranges' = [ranges EXCEPT ![r] = setEndOffset(@, offset)]
  /\ answer' = NoAnswer
  /\ RangeOp("setEndOffset", r)

\* a client calls range.collapse(toStart)
Collapse(r, toStart) ==
  /\ ranges[r].made
  /\ rangeRev # "part_002"
  /\ ranges' = [ranges EXCEPT ![r] = collapse(@, toStart)]
  /\ answer' = NoAnswer
  /\ RangeOp(IF toStart THEN "collapseToStart" ELSE "collapseToEnd", r)

\* a client calls a query method of a range that owns its mirror
OwnQuery(r, op) ==
  /\ ranges[r].made
  /\ rangeRev \in OwnMirrorRevisions
  /\ op \in QueryOps
  /\ ranges' = [ranges EXCEPT ![r] = ownQuery(@, op).range]
  /\ answer' = ownQuery(ranges[r], op).answer
  /\ RangeOp(op, r)

\* a client calls a query method of a range of input-range.ts: the mirror
\* comes from for(input), which constructs it when the cache has none
SharedQuery(r, op) ==
  /\ ranges[r].made
  /\ rangeRev = "input-range"
  /\ op \in QueryOps
  /\ registry[ranges[r].input] # None \/ FreshId(World) # None
  /\ LET q == for(World, ranges[r].input)
     IN  /\ clones' = q.world.clones
         /\ registry' = q.world.registry
         /\ last' = [op |-> op, clone |-> r, trace |-> q.world.trace,
                     again |-> FALSE]
         /\ answer' = sharedQuery(q.world.clones[q.result], ranges[r], op)
         /\ Remember(ranges[r].input, q.result)
  /\ UNCHANGED <<variant, alive, value, inputStyle, geom, foreign, rangeRev,
                 isFirefox, ranges>>

\* the MutationObserver or ResizeObserver callback of a range's mirror
StyleCloneCallback(r) ==
  /\ ranges[r].clone.mutationObserver \/ ranges[r].clone.resizeObserver
  /\ alive[ranges[r].input]
  /\ ranges' = [ranges EXCEPT ![r].clone =
                  styleCloneUpdateStyles(@, ranges[r].input)]
  /\ answer' = NoAnswer
  /\ RangeOp("styleCloneCallback", r)

\* ------------------------------------------------------ specifications
\* the state after the page has loaded: two inputs, no mirror, no range
Fresh ==
  /\ alive = [i \in Inputs |-> TRUE]
  /\ value = [i \in Inputs |-> <<"h", "i">>]
  /\ inputStyle = [i \in Inputs |-> 0]
  /\ geom = [i \in Inputs |-> 0]
  /\ registry = [i \in Inputs |-> None]
  /\ clones = [c \in CloneIds |-> Unborn]
  /\ last = [op |-> "init", clone |-> None, trace |-> <<>>, again |-> FALSE]
  /\ forLog = [i \in Inputs |-> <<>>]
  /\ foreign = [i \in Inputs |-> FALSE]
  /\ ranges = [r \in RangeIds |-> NoRange]
  /\ answer = NoAnswer

Init ==
  /\ variant \in Variants
  /\ rangeRev = "index"
  /\ isFirefox = FALSE
  /\ Fresh

\* what a mirror's callbacks and its clients can do
Handlers ==
  \/ \E c \in CloneIds : Disconnect(c)
  \/ \E c \in CloneIds : ForceUpdate(c)
  \/ \E c \in CloneIds : StyleMutation(c)
  \/ \E c \in CloneIds : ElementResize(c)
  \/ \E c \in CloneIds, t \in EventTargets : DocumentScroll(c, t)
  \/ \E c \in CloneIds : WindowResize(c)
  \/ \E c \in CloneIds : OnInput(c)
  \/ \E c \in CloneIds : Frame(c)

\* The cache and the life cycle: several mirrors of two inputs, obtained
\* through for() or constructed directly, updated, torn down and collected,
\* under inputs that do not change otherwise.
Next ==
  \/ \E i \in Inputs : For(i)
  \/ \E i \in Inputs : Query(i)
  \/ \E i \in Inputs : New(i)
  \/ \E c \in CloneIds : Disconnect(c)
  \/ \E c \in CloneIds : ForceUpdate(c)
  \/ \E c \in CloneIds : WindowResize(c)
  \/ \E c \in CloneIds : Frame(c)
  \/ \E i \in Inputs : Collect(i)

Spec == Init /\ [][Next]_vars

\* Synchronization: the one shared mirror of an input whose value, style
\* and geometry keep changing.
Tracked == "in1"

NextSync ==
  \/ (\A c \in CloneIds : ~clones[c].born) /\ For(Tracked)
  \/ Handlers
  \/ Collect(Tracked)
  \/ \E v \in Values : SetValue(Tracked, v)
  \/ \E s \in StyleIds : SetStyle(Tracked, s)
  \/ \E g \in GeomIds : SetGeometry(Tracked, g)
  \/ \E c \in CloneIds, n \in NaturalIds : MoveClone(c, n)

SpecSync == Init /\ [][NextSync]_vars

\* animation frames keep firing: a queued callback is eventually run
FairSync ==
  SpecSync /\ \A c \in CloneIds : WF_vars(Frame(c))

\* The ranges: ranges over one input are constructed, moved, collapsed,
\* queried and (in the revisions that have it) detached while the input
\* changes and the shared mirror's callbacks run; part_002 holds the input
\* weakly, index.ts and input-range.ts strongly.
InitRange ==
  /\ rangeRev \in OwnMirrorRevisions
  /\ variant = "InputStyleClone"
  /\ isFirefox \in BOOLEAN
  /\ Fresh

NextRange ==
  \/ \E r \in RangeIds, s, e \in Offsets : NewRange(r, Tracked, s, e)
  \/ \E r \in RangeIds : Detach(r)
  \/ \E r \in RangeIds, o \in Offsets : SetStartOffset(r, o)
  \/ \E r \in RangeIds, o \in Offsets : SetEndOffset(r, o)
  \/ \E r \in RangeIds, b \in BOOLEAN : Collapse(r, b)
  \/ \E r \in RangeIds, op \in QueryOps : OwnQuery(r, op)
  \/ \E r \in RangeIds : StyleCloneCallback(r)
  \/ (rangeRev = "part_002" \/ \A r \in RangeIds : ~ranges[r].made)
       /\ Collect(Tracked)
  \/ \E v \in Values : SetValue(Tracked, v)
  \/ \E s \in StyleIds : SetStyle(Tracked, s)
  \/ \E g \in GeomIds : SetGeometry(Tracked, g)

SpecRange == InitRange /\ [][NextRange]_vars

\* The ranges of input-range.ts: ranges over one input are constructed,
\* moved, collapsed and queried on the shared InputStyleCloneElement of the
\* input, while the input's value and geometry change and the mirror's
\* input handler and frame callback run.
InitInputRange ==
  /\ rangeRev = "input-range"
  /\ variant = "InputStyleCloneElement"
  /\ isFirefox = FALSE
  /\ Fresh

NextInputRange ==
  \/ \E r \in RangeIds, s, e \in Offsets : NewRange(r, Tracked, s, e)
  \/ \E r \in RangeIds, s, e \in {Null} \cup (0..MaxOffset) :
       FromSelection(r, Tracked, s, e)
  \/ \E r \in RangeIds, o \in Offsets : SetStartOffset(r, o)
  \/ \E r \in RangeIds, o \in Offsets : SetEndOffset(r, o)
  \/ \E r \in RangeIds, b \in BOOLEAN : Collapse(r, b)
  \/ \E r \in RangeIds, op \in QueryOps : SharedQuery(r, op)
  \/ \E c \in CloneIds : OnInput(c)
  \/ \E c \in CloneIds : Frame(c)
  \/ \E v \in Values : SetValue(Tracked, v)
  \/ \E g \in GeomIds : SetGeometry(Tracked, g)

SpecInputRange == InitInputRange /\ [][NextInputRange]_vars

\* The mirror of input-style-clone.ts: mirrors of one input are constructed,
\* updated by their observers and listeners, forced and detached while the
\* input's value, style and geometry change.
InitDetach ==
  /\ variant = "input-style-clone.ts"
  /\ rangeRev = "index"
  /\ isFirefox = FALSE
  /\ Fresh

NextDetach ==
  \/ CloneNew(Tracked)
  \/ \E c \in CloneIds : CloneDetach(c)
  \/ \E c \in CloneIds : CloneForceUpdate(c)
  \/ \E c \in CloneIds : CloneStyleMutation(c)
  \/ \E c \in CloneIds : CloneIntersection(c)
  \/ \E c \in CloneIds : CloneOnScroll(c)
  \/ \E c \in CloneIds : CloneOnInput(c)
  \/ Collect(Tracked)
  \/ \E v \in Values : SetValue(Tracked, v)
  \/ \E s \in StyleIds : SetStyle(Tracked, s)
  \/ \E g \in GeomIds : SetGeometry(Tracked, g)

SpecDetach == InitDetach /\ [][NextDetach]_vars

\* The mirror of input-clone.ts: instances for one input are constructed and
\* read, their observers run, and the input changes and is collected.
InitWeak ==
  /\ variant = "input-clone.ts"
  /\ rangeRev = "part_002"
  /\ isFirefox \in BOOLEAN
  /\ Fresh

NextWeak ==
  \/ WeakNew(Tracked)
  \/ \E c \in CloneIds : WeakObserverCallback(c)
  \/ \E c \in CloneIds : WeakInputElement(c)
  \/ \E c \in CloneIds : WeakCloneElement(c)
  \/ Collect(Tracked)
  \/ \E v \in Values : SetValue(Tracked, v)
  \/ \E s \in StyleIds : SetStyle(Tracked, s)
  \/ \E g \in GeomIds : SetGeometry(Tracked, g)

SpecWeak == InitWeak /\ [][NextWeak]_vars

\* The style copy of the old mirror: a range over a textarea or over a
\* single-line input is constructed and its mirror's observers run while
\* the style and the geometry of the inputs change, on either engine.
NextStyleCopy ==
  \/ \E r \in RangeIds, i \in Inputs : NewRange(r, i, 0, 0)
  \/ \E r \in RangeIds : StyleCloneCallback(r)
  \/ \E r \in RangeIds : Detach(r)
  \/ \E i \in Inputs, s \in StyleIds : SetStyle(i, s)
  \/ \E i \in Inputs, g \in GeomIds : SetGeometry(i, g)

SpecStyleCopy == InitRange /\ [][NextStyleCopy]_vars

\* Input events: the shared mirror of one input whose value and geometry
\* change, with another listener of the input event registered somewhere.
NextInput ==
  \/ (\A c \in CloneIds : ~clones[c].born) /\ For(Tracked)
  \/ \E c \in CloneIds, p \in ListenerPlaces : DispatchInput(c, p)
  \/ \E c \in CloneIds : Frame(c)
  \/ \E v \in Values : SetValue(Tracked, v)
  \/ \E g \in GeomIds : SetGeometry(Tracked, g)
  \/ \E c \in CloneIds, n \in NaturalIds : MoveClone(c, n)

SpecInput == Init /\ [][NextInput]_vars

\* ---------------------------------------------------------- vocabulary
Born == {c \in CloneIds : clones[c].born}

\* the mirrors of input i whose container is attached
ConnectedMirrors(i) ==
  {c \in Born : clones[c].input = i /\ clones[c].attached}

\* nothing of the mirror is left in the document or subscribed
TornDown(c) ==
  /\ ~clones[c].attached
  /\ ~clones[c].styleObserver
  /\ ~clones[c].resizeObserver
  /\ ~clones[c].documentListener
  /\ ~clones[c].windowListener

\* the handlers that synchronize a mirror with its input
SyncOps ==
  {"styleMutation", "elementResize", "scroll", "resize", "input", "frame",
   "forceUpdate"}

Occurs(e, trace) == \E k \in 1..Len(trace) : trace[k] = e

Count(e, trace) == Cardinality({k \in 1..Len(trace) : trace[k] = e})

\* ---------------------------------------------------------------- claims

\* C1: two calls of for(input), by clients or by the queries of any
\* InputRange on that input, with no disconnect() of a mirror of that input
\* and no collection of the input between them, return the same mirror.
C1_SameMirror ==
  \A i \in Inputs :
    Len(forLog[i]) = 2 => forLog[i][1] = forLog[i][2]

\* C1 witness: a range query got the mirror that an earlier for() of the
\* same input returned, and that mirror is still connected.
C1_Witness ==
  \E i \in Inputs :
    /\ Len(forLog[i]) = 2
    /\ last.op = "query"
    /\ last.clone = forLog[i][2]
    /\ clones[last.clone].input = i
    /\ clones[last.clone].attached

C3_TeardownWhenGone ==
  /\ [](\A c \in Born :
          (last.clone = c /\ last.op \in SyncOps /\ ~alive[clones[c].input])
            => (registry[clones[c].input] = None /\ TornDown(c)))
  /\ [][\A c \in Born : TornDown(c) => TornDown(c)']_vars

\* C3 witness: a queued animation-frame callback found the input collected
\* and tore the mirror down.
C3_Witness ==
  \E c \in Born :
    /\ last.clone = c /\ last.op = "frame"
    /\ ~alive[clones[c].input]
    /\ Occurs("teardown", last.trace)
    /\ TornDown(c)

\* C4: a mirror never has more than one animation-frame callback queued,
\* and one is queued exactly when #isLayoutUpdating is set; a resize signal
\* in state idle queues one callback and sets the flag, a resize signal in
\* state layout-pending changes nothing of the mirror.
C4_OneFramePending ==
  /\ [](\A c \in CloneIds :
          /\ clones[c].frames <= 1
          /\ (clones[c].frames = 1) <=> clones[c].isLayoutUpdating)
  /\ [][\A c \in CloneIds :
          ElementResize(c) =>
            IF clones[c].isLayoutUpdating
              THEN clones'[c] = clones[c]
              ELSE clones'[c] = [clones[c] EXCEPT !.isLayoutUpdating = TRUE,
                                                  !.frames = 1]]_vars

\* C4 witness: a resize signal arrived while a callback was queued and was
\* dropped.
C4_Witness ==
  \E c \in Born :
    /\ last.clone = c /\ last.op = "elementResize"
    /\ last.trace = <<"dropped">>
    /\ clones[c].frames = 1 /\ clones[c].isLayoutUpdating

\* the mirror's content box and position are those of the input, and so is
\* its scroll when it holds the input's text
Measured(c) ==
  LET m == clones[c]
      g == InputGeometry(m.input)
  IN  /\ CloneClientHeight(m, m.height) = InputClientHeight(m.input)
      /\ CloneClientWidth(m, m.width) = InputClientWidth(m.input)
      /\ CloneRect(m) = [left |-> g.left, top |-> g.top]
      /\ m.text = value[m.input] =>
           m.scrollTop = g.scrollTop /\ m.scrollLeft = g.scrollLeft

\* a resize-class signal of mirror c was observed and forwarded to the
\* scheduler by the handler that ran last
ResizeSignal(c) ==
  /\ last.clone = c
  /\ last.op \in {"elementResize", "scroll", "resize"}
  /\ last.trace \in {<<"requested">>, <<"dropped">>}

\* the frame callback of mirror c ran last and left the scheduler idle
FrameRan(c) ==
  /\ last.clone = c /\ last.op = "frame"
  /\ ~clones[c].isLayoutUpdating
  /\ clones[c].frames = 0

\* C5 as stated: with frames firing, every resize-class signal is followed
\* by a frame callback that runs one layout pass on the state of the input
\* at that time and leaves the scheduler idle.
C5_SignalLeadsToLayout ==
  \A c \in CloneIds :
    ResizeSignal(c) ~>
      (FrameRan(c) /\ Count("layout", last.trace) = 1 /\ Measured(c))

\* C5 as amended: with frames firing, every resize-class signal is followed
\* by one frame callback that leaves the scheduler idle; it runs exactly one
\* layout pass if the input is still resolvable, which puts the mirror on
\* the state of the input at that time if the mirror is still connected,
\* and tears the mirror down without a layout pass if the input is not
\* resolvable.
C5_SignalLeadsToFrame ==
  \A c \in CloneIds :
    ResizeSignal(c) ~>
      (/\ FrameRan(c)
       /\ IF alive[clones[c].input]
            THEN /\ Count("layout", last.trace) = 1
                 /\ clones[c].attached => Measured(c)
            ELSE Count("layout", last.trace) = 0 /\ TornDown(c))

\* C5 witness: a frame callback ran the layout pass for an input that had
\* moved and scrolled, and the scheduler is idle again.
C5_Witness ==
  \E c \in Born :
    /\ FrameRan(c)
    /\ alive[clones[c].input]
    /\ geom[clones[c].input] = 1
    /\ last.trace = <<"layout", "update">>
    /\ Measured(c)

\* C6: the handler of an input event sets the mirror's text to the input's
\* value and then runs a layout pass before it returns, whatever the state
\* of the scheduler; nothing is left to an animation frame.
C6_TextThenLayoutNow ==
  \A c \in Born :
    (last.clone = c /\ last.op = "input") =>
      /\ clones[c].text = value[clones[c].input]
      /\ last.trace = <<"text", "layout", "update">>
      /\ Measured(c)

\* the fields a layout pass writes
LayoutFields(m) ==
  <<m.height, m.width, m.xOffset, m.yOffset, m.transformX, m.transformY,
    m.scrollTop, m.scrollLeft>>

\* C7: the style observer's callback, run with the input resolvable, copies
\* every property of propertiesToCopy from the input's computed style, runs
\* no layout pass itself and leaves the scheduler layout-pending with one
\* frame callback queued.
C7_StyleThenRequest ==
  [][\A c \in CloneIds :
       StyleMutation(c) =>
         /\ clones'[c].style =
              [p \in propertiesToCopy |-> getComputedStyle(clones[c].input)[p]]
         /\ LayoutFields(clones'[c]) = LayoutFields(clones[c])
         /\ ~Occurs("layout", last'.trace)
         /\ clones'[c].isLayoutUpdating
         /\ clones'[c].frames = 1]_vars

\* C7 witness: the callback copied a changed style while the scheduler was
\* idle and queued the layout pass.
C7_Witness ==
  \E c \in Born :
    /\ last.clone = c /\ last.op = "styleMutation"
    /\ last.trace = <<"style", "requested">>
    /\ inputStyle[clones[c].input] = 1
    /\ \A p \in propertiesToCopy : clones[c].style[p] = 1
    /\ clones[c].height # getComputedStyle(clones[c].input)["height"]

\* C8: once a mirror is disconnected, none of its callbacks runs a layout
\* pass or emits an update notification.
C8_QuietAfterDisconnect ==
  \A c \in Born :
    (/\ variant = "InputStyleClone"
     /\ last.clone = c
     /\ last.op \in SyncOps \ {"forceUpdate"}
     /\ ~clones[c].attached)
      => (~Occurs("layout", last.trace) /\ ~Occurs("update", last.trace))

\* everything of the mirror that synchronization writes
SyncFields(m) == <<m.style, m.text, LayoutFields(m)>>

\* C9: forceUpdate, the frame callback (layout sync) and the scroll / resize
\* handler, run with the input unresolvable, change none of the mirror's
\* styles, text, size, offset and scroll, emit no update notification, and
\* leave the mirror torn down.
C9_NoOpWhenGone ==
  [][\A c \in CloneIds :
       (/\ clones[c].born
        /\ ~alive[clones[c].input]
        /\ \/ ForceUpdate(c)
           \/ Frame(c)
           \/ WindowResize(c)
           \/ \E t \in EventTargets : DocumentScroll(c, t))
         => /\ SyncFields(clones'[c]) = SyncFields(clones[c])
            /\ \A e \in {"style", "text", "layout", "update"} :
                 ~Occurs(e, last'.trace)
            /\ TornDown(c)']_vars

\* C9 witness: forceUpdate found the input collected; the mirror's text is
\* still the one it had, not the input's last value, and it is torn down.
C9_Witness ==
  \E c \in Born :
    /\ last.clone = c /\ last.op = "forceUpdate"
    /\ ~alive[clones[c].input]
    /\ Occurs("teardown", last.trace)
    /\ clones[c].text # value[clones[c].input]
    /\ TornDown(c)

\* C10: a rect query (getClientRects / getBoundingClientRect) on a range
\* whose detach() has been called fails with an error.
C10_QueryAfterDetachFails ==
  \A r \in RangeIds :
    (/\ last.clone = r
     /\ last.op \in {"getClientRects", "getBoundingClientRect"}
     /\ ranges[r].detached)
      => answer.kind = "error"

\* C17: a forceUpdate() that follows a forceUpdate() of the same mirror with
\* no step in between leaves every field of the mirror (text, copied
\* styles, declared size, accumulated offset, transform, scroll, scheduler)
\* as the first call left it.
C17_ForceUpdateIdempotent ==
  [][\A c \in CloneIds :
       (ForceUpdate(c) /\ last.op = "forceUpdate" /\ last.clone = c)
         => clones'[c] = clones[c]]_vars

\* C17 as amended: the second of two forceUpdate() calls in a row leaves
\* every field of the mirror as the first left it when the mirror is in the
\* document or the class leaves the layout pass to the animation frame.
C17_ForceUpdateIdempotentConnected ==
  [][\A c \in CloneIds :
       ( /\ ForceUpdate(c) /\ last.op = "forceUpdate" /\ last.clone = c
         /\ clones[c].attached \/ variant = "InputStyleCloneElement" )
         => clones'[c] = clones[c]]_vars

\* C17 witness: the second of two forceUpdate() calls in a row, on a live
\* input that has moved and scrolled, ran a layout pass and the mirror is
\* on the input.
C17_Witness ==
  \E c \in Born :
    /\ variant = "InputStyleClone"
    /\ last.op = "forceUpdate" /\ last.clone = c /\ last.again
    /\ alive[clones[c].input]
    /\ clones[c].attached
    /\ geom[clones[c].input] = 1
    /\ Occurs("layout", last.trace)
    /\ Measured(c)

\* C18: forceUpdate() with the input resolvable leaves the mirror's text
\* equal to the input's value and has dispatched an update notification
\* when it returns.
C18_ForceUpdateTextAndUpdate ==
  \A c \in Born :
    (last.op = "forceUpdate" /\ last.clone = c /\ alive[clones[c].input])
      => /\ clones[c].text = value[clones[c].input]
         /\ Occurs("update", last.trace)

\* the passes a handler ran, by the steps in its trace
Passes(trace) == {e \in {"style", "text", "layout"} : Occurs(e, trace)}

\* C19 as stated: a handler of InputStyleClone that ran a style, text or
\* layout pass with the input resolvable has dispatched an update
\* notification when it returns.
C19_EveryPassUpdates ==
  \A c \in Born :
    (/\ variant = "InputStyleClone"
     /\ last.clone = c /\ last.op \in SyncOps
     /\ alive[clones[c].input]
     /\ Passes(last.trace) # {})
      => Occurs("update", last.trace)

\* C19 as amended: with the input resolvable, every layout pass dispatches
\* one update notification before it returns, and so does a text pass of
\* InputStyleClone, which runs a layout pass itself; a style pass alone
\* dispatches none and leaves the scheduler layout-pending, so that the
\* notification comes from the frame's layout pass.
C19_LayoutPassUpdates ==
  /\ [](\A c \in Born :
          (last.clone = c /\ last.op \in SyncOps /\ alive[clones[c].input])
            => /\ Count("update", last.trace) = Count("layout", last.trace)
               /\ (variant = "InputStyleClone" /\ Occurs("text", last.trace))
                    => Occurs("update", last.trace)
               /\ (last.op = "frame") => Count("update", last.trace) = 1)
  /\ [][\A c \in CloneIds :
          StyleMutation(c) =>
            /\ ~Occurs("update", last'.trace)
            /\ clones'[c].isLayoutUpdating
            /\ clones'[c].frames = 1]_vars

\* C19 witness: the frame after a style pass ran the layout pass and
\* dispatched the update for the style that was copied.
C19_Witness ==
  \E c \in Born :
    /\ last.clone = c /\ last.op = "frame"
    /\ last.trace = <<"layout", "update">>
    /\ alive[clones[c].input]
    /\ inputStyle[clones[c].input] = 1
    /\ \A p \in propertiesToCopy : clones[c].style[p] = 1
    /\ clones[c].height = getComputedStyle(clones[c].input)["height"]
         + InputClientHeight(clones[c].input)
         - CloneClientHeight(clones[c],
                             getComputedStyle(clones[c].input)["height"])

\* the event's target is the document, the window or a node that contains
\* the input
Forwarded(target, i) ==
  target = "document" \/ target = "window" \/ Contains(target, i)

\* the scheduler's part of a mirror
Scheduler(m) == <<m.isLayoutUpdating, m.frames>>

\* C20 as stated: a document scroll or window resize event reaches
\* #requestUpdateLayout if and only if its target is the document, the
\* window or a node containing the input, and an event of another target
\* leaves the scheduler as it was.
C20_ForwardedIffContains ==
  [][\A c \in CloneIds, t \in EventTargets :
       (DocumentScroll(c, t) \/ (t = "window" /\ WindowResize(c)))
         => /\ Forwarded(t, clones[c].input)
                <=> last'.trace \in {<<"requested">>, <<"dropped">>}
            /\ ~Forwarded(t, clones[c].input)
                => Scheduler(clones'[c]) = Scheduler(clones[c])]_vars

\* C20 as amended: the same, for events handled while the input is
\* resolvable; an event of another target then changes nothing of the
\* mirror.
C20_ForwardedIffContainsLive ==
  [][\A c \in CloneIds, t \in EventTargets :
       (/\ alive[clones[c].input]
        /\ DocumentScroll(c, t) \/ (t = "window" /\ WindowResize(c)))
         => /\ Forwarded(t, clones[c].input)
                <=> last'.trace \in {<<"requested">>, <<"dropped">>}
            /\ ~Forwarded(t, clones[c].input)
                => (last'.trace = <<>> /\ clones'[c] = clones[c])]_vars

\* C20 witness: a scroll event whose target does not contain the input was
\* handled by an idle mirror of a live input, and no frame was queued.
C20_Witness ==
  \E c \in Born :
    /\ last.clone = c /\ last.op = "scroll"
    /\ last.trace = <<>>
    /\ alive[clones[c].input]
    /\ clones[c].documentListener
    /\ ~clones[c].isLayoutUpdating /\ clones[c].frames = 0

\* the four query methods of a range
RangeQueries ==
  {"getClientRects", "getBoundingClientRect", "cloneContents", "toString"}

\* the offset lies within the current value of the input
InBounds(i, offset) == offset >= 0 /\ offset <= Len(value[i])

\* C11: constructing an InputRange with any offsets leaves the range with
\* the start and end offsets clamped into [0, length(value)], as if the
\* clamped offsets had been passed.
C11_ConstructorClamps ==
  [][\A r \in RangeIds, s, e \in Offsets :
       NewRange(r, Tracked, s, e) =>
         /\ ranges'[r].startOffset = clampOffset(Tracked, s)
         /\ ranges'[r].endOffset = clampOffset(Tracked, e)]_vars

\* C12: after setStartOffset(o) the start offset is min(max(o, 0),
\* length(value)) for the value at the call, after setEndOffset(o) the end
\* offset is, and the offset set lies in [0, length(value)].
C12_SettersClamp ==
  [][\A r \in RangeIds, o \in Offsets :
       /\ SetStartOffset(r, o) =>
            /\ ranges'[r].startOffset
                 = Min(Max(o, 0), Len(value[ranges[r].input]))
            /\ InBounds(ranges[r].input, ranges'[r].startOffset)
            /\ ranges'[r].endOffset = ranges[r].endOffset
       /\ SetEndOffset(r, o) =>
            /\ ranges'[r].endOffset
                 = Min(Max(o, 0), Len(value[ranges[r].input]))
            /\ InBounds(ranges[r].input, ranges'[r].endOffset)
            /\ ranges'[r].startOffset = ranges[r].startOffset]_vars

\* C12 witness: a setter has just run on a range of an input whose value is
\* shorter than an offset the range still stores, and the offset it set is
\* within the value.
C12_Witness ==
  \E r \in RangeIds :
    /\ last.op = "setStartOffset" /\ last.clone = r
    /\ rangeRev = "input-range"
    /\ value[ranges[r].input] = <<>>
    /\ ranges[r].startOffset = 0
    /\ ranges[r].endOffset > 0

\* C13: after collapse(toStart) the start offset equals the end offset;
\* collapse(true) leaves the start offset as it was and collapse(false)
\* leaves the end offset as it was.
C13_CollapseCollapses ==
  [][\A r \in RangeIds, toStart \in BOOLEAN :
       Collapse(r, toStart) =>
         /\ ranges'[r].startOffset = ranges'[r].endOffset
         /\ toStart => ranges'[r].startOffset = ranges[r].startOffset
         /\ ~toStart => ranges'[r].endOffset = ranges[r].endOffset]_vars

\* C14: a rect or string query of a range never fails, whatever offsets the
\* range stores.
C14_QueryNeverFails ==
  (rangeRev = "input-range" /\ last.op \in RangeQueries)
    => answer.kind # "error"

\* C15: when the mirror has no text node, because the value of the input is
\* empty, a query of a range does not fail and returns an empty list, a
\* rect of no width and height, or an empty text.
C15_EmptyMirrorDegenerate ==
  \A r \in RangeIds :
    ( /\ last.op \in RangeQueries /\ last.clone = r
      /\ alive[ranges[r].input]
      /\ value[ranges[r].input] = <<>>
      /\ ranges[r].clone.text = <<>> )
    => /\ answer.kind # "error"
       /\ answer.kind = "list" => answer.rects = <<>>
       /\ answer.kind = "rect" =>
            answer.rects[1].width = 0 /\ answer.rects[1].height = 0
       /\ answer.kind \in {"string", "fragment"} => answer.text = <<>>

\* rect - mirrorBoundingBox + inputBoundingBox - inputScrollOffset for a
\* rect measured on the shared mirror m of the input i
Translated(m, i, rect) ==
  [left   |-> rect.left - CloneRect(m).left
                + InputGeometry(i).left - InputGeometry(i).scrollLeft,
   top    |-> rect.top - CloneRect(m).top
                + InputGeometry(i).top - InputGeometry(i).scrollTop,
   width  |-> rect.width,
   height |-> rect.height]

\* the rects the native range of the range R gives on the mirror m
NativeRects(m, R, op) ==
  LET rects == MirrorClientRects(m, createCloneRange(m, R))
  IN  IF op = "getBoundingClientRect" /\ rects = <<>>
        THEN <<ZeroRect>> ELSE rects

\* C16: every rect that getBoundingClientRect and getClientRects return is
\* the native rect measured on the mirror, moved by the input's box less
\* the mirror's box less the input's scroll, its width and height kept.
C16_RectsTranslated ==
  \A r \in RangeIds :
    ( /\ rangeRev = "input-range"
      /\ last.op \in {"getClientRects", "getBoundingClientRect"}
      /\ last.clone = r
      /\ answer.kind \in {"list", "rect"} )
    => LET i == ranges[r].input
           m == clones[registry[i]]
           native == NativeRects(m, ranges[r], last.op)
       IN  answer.rects
             = [k \in 1..Len(native) |-> Translated(m, i, native[k])]

\* C21: after the construction of a mirror, and after every input event and
\* every forceUpdate handled while the input is resolvable, the mirror's
\* text is the input's current value; no other step changes the mirror's
\* text, so an assignment to the input's value leaves the text stale.
C21_TextFollowsValue ==
  [][\A c \in CloneIds :
       /\ ( /\ clones'[c].born
            /\ alive[clones'[c].input]
            /\ (~clones[c].born \/ OnInput(c) \/ ForceUpdate(c)) )
          => clones'[c].text = value'[clones'[c].input]
       /\ ( /\ clones[c].born
            /\ ~(OnInput(c) \/ ForceUpdate(c)) )
          => clones'[c].text = clones[c].text]_vars

\* C21 witness: an input event has been handled after the input's value
\* became empty, and the mirror's text is empty as well.
C21_Witness ==
  \E c \in Born :
    /\ last.clone = c /\ last.op = "input"
    /\ alive[clones[c].input]
    /\ value[clones[c].input] = <<>>
    /\ clones[c].text = <<>>

\* the text of the mirror that the range r queries
MirrorTextOf(r) ==
  IF rangeRev = "input-range"
    THEN clones[registry[ranges[r].input]].text
    ELSE ranges[r].clone.text

\* C22: for a range with 0 <= startOffset <= endOffset <= length(value),
\* queried while the mirror's text is the input's value, toString() returns
\* the characters of the value from startOffset up to endOffset.
C22_ToStringIsSlice ==
  \A r \in RangeIds :
    ( /\ last.op = "toString" /\ last.clone = r
      /\ alive[ranges[r].input]
      /\ 0 <= ranges[r].startOffset
      /\ ranges[r].startOffset <= ranges[r].endOffset
      /\ ranges[r].endOffset <= Len(value[ranges[r].input])
      /\ MirrorTextOf(r) = value[ranges[r].input] )
    => answer = String(SubSeq(value[ranges[r].input],
                              ranges[r].startOffset + 1,
                              ranges[r].endOffset))

C24_IdleMirrorEvicted ==
  \A c \in CloneIds :
    (clones[c].attached /\ registry[Tracked] = c)
      ~> (~clones[c].attached /\ registry[Tracked] # c)

\* C25: disconnect() on a mirror that was constructed directly, while the
\* cache holds the shared mirror of the same input, leaves the cache entry
\* as it is: for(input) goes on returning the shared mirror, and the shared
\* mirror is not left connected outside the cache.
C25_ForeignDisconnectKeepsShared ==
  [][\A c \in CloneIds :
       ( /\ Disconnect(c)
         /\ alive[clones[c].input]
         /\ registry[clones[c].input] \notin {None, c} )
       => /\ registry'[clones[c].input] = registry[clones[c].input]
          /\ for([clones |-> clones', registry |-> registry',
                  trace |-> <<>>], clones[c].input).result
               = registry[clones[c].input]]_vars

\* the origin of the input's bounding box
InputOrigin(i) ==
  [left |-> InputGeometry(i).left, top |-> InputGeometry(i).top]

\* the step ran a layout pass of the mirror c
LayoutPass(c) ==
  /\ last'.clone = c
  /\ last'.op \in SyncOps \cup {"for"}
  /\ Occurs("layout", last'.trace)

\* C26: a layout pass sets the accumulated offset, on both axes, to the old
\* offset plus the input's origin less the mirror's origin, and applies it
\* as the transform; a mirror in the document then has the origin of the
\* input, wherever the document lays it out, and a mirror that was already
\* on the input keeps its offset.
C26_OffsetAccumulates ==
  [][\A c \in CloneIds :
       LayoutPass(c) =>
         LET i == clones'[c].input
         IN  /\ clones[c].born =>
                  /\ clones'[c].xOffset = clones[c].xOffset
                       + InputOrigin(i).left - CloneRect(clones[c]).left
                  /\ clones'[c].yOffset = clones[c].yOffset
                       + InputOrigin(i).top - CloneRect(clones[c]).top
             /\ clones'[c].transformX = clones'[c].xOffset
             /\ clones'[c].transformY = clones'[c].yOffset
             /\ clones'[c].attached =>
                  CloneRect(clones'[c]) = InputOrigin(i)
             /\ (clones[c].born /\ CloneRect(clones[c]) = InputOrigin(i)) =>
                  /\ clones'[c].xOffset = clones[c].xOffset
                  /\ clones'[c].yOffset = clones[c].yOffset]_vars

\* C26 witness: a frame callback has laid out a mirror that the document
\* had moved to another natural position, for an input that had moved too;
\* the mirror is on the input with an offset that is neither 0 nor the
\* input's position.
C26_Witness ==
  \E c \in Born :
    /\ last.clone = c /\ last.op = "frame"
    /\ Occurs("layout", last.trace)
    /\ clones[c].attached
    /\ clones[c].natural = 1
    /\ geom[clones[c].input] = 1
    /\ CloneRect(clones[c]) = InputOrigin(clones[c].input)
    /\ clones[c].xOffset = InputOrigin(clones[c].input).left
                             - NaturalPosition(1).left
    /\ clones[c].xOffset \notin {0, InputOrigin(clones[c].input).left}

C28_ScrollCopied ==
  [][\A c \in CloneIds :
       (LayoutPass(c) /\ alive[clones'[c].input]) =>
         /\ clones'[c].scrollTop = InputGeometry(clones'[c].input).scrollTop
         /\ clones'[c].scrollLeft =
              InputGeometry(clones'[c].input).scrollLeft]_vars

\* C28 as amended: after a layout pass that ran with the input resolvable, a
\* mirror in the document is scrolled to the input's scroll position clamped
\* to what the mirror's own text can scroll, which is the input's position
\* when the mirror's text is the input's value; a mirror out of the document
\* keeps the scroll position it had.
C28_ScrollCopiedWhenInSync ==
  [][\A c \in CloneIds :
       (LayoutPass(c) /\ alive[clones'[c].input]) =>
         LET m == clones'[c]
             g == InputGeometry(m.input)
         IN  IF m.attached
               THEN /\ m.scrollTop = Min(g.scrollTop, ScrollLimit(m.text).top)
                    /\ m.scrollLeft =
                         Min(g.scrollLeft, ScrollLimit(m.text).left)
                    /\ (m.text = value[m.input]) =>
                         /\ m.scrollTop = g.scrollTop
                         /\ m.scrollLeft = g.scrollLeft
               ELSE clones[c].born =>
                      /\ m.scrollTop = clones[c].scrollTop
                      /\ m.scrollLeft = clones[c].scrollLeft]_vars

\* C28 witness: a layout pass has run on a connected mirror that holds the
\* text of a scrolled input, and the mirror is scrolled as the input is.
C28_Witness ==
  \E c \in Born :
    /\ last.clone = c /\ Occurs("layout", last.trace)
    /\ clones[c].attached
    /\ alive[clones[c].input]
    /\ clones[c].text = value[clones[c].input]
    /\ InputGeometry(clones[c].input).scrollTop > 0
    /\ InputGeometry(clones[c].input).scrollLeft > 0
    /\ clones[c].scrollTop = InputGeometry(clones[c].input).scrollTop
    /\ clones[c].scrollLeft = InputGeometry(clones[c].input).scrollLeft

\* the operations of a mirror: construction, the synchronizing handlers and
\* teardown
MirrorOps == SyncOps \cup {"for", "new", "query", "disconnect"}

\* C29: no operation of a mirror (construction, style sync, layout sync,
\* text sync, forceUpdate, teardown) changes the input's value, scroll
\* offsets or style, or whether the input is resolvable.
C29_InputUntouched ==
  [][last'.op \in MirrorOps =>
       /\ value' = value
       /\ geom' = geom
       /\ inputStyle' = inputStyle
       /\ alive' = alive]_vars

\* C29 witness: a synchronizing handler has just rewritten a connected
\* mirror (text, layout) from an input that holds text, is scrolled and is
\* under the second style sheet.
C29_Witness ==
  \E c \in Born :
    /\ last.clone = c /\ last.op \in SyncOps
    /\ Occurs("text", last.trace) /\ Occurs("layout", last.trace)
    /\ clones[c].attached
    /\ alive[clones[c].input]
    /\ value[clones[c].input] # <<>>
    /\ clones[c].text = value[clones[c].input]
    /\ geom[clones[c].input] = 1
    /\ inputStyle[clones[c].input] = 1

\* the events on the input that a mirror subscribes to
EventOps == {"input", "scroll", "resize", "styleMutation", "elementResize"}

\* C30: once a mirror has been torn down while its input is resolvable, an
\* input event, scroll event, resize or style mutation on the input no longer
\* reaches the mirror: no handler of the mirror runs for it, so the mirror's
\* text and state stay as they are and no update notification is emitted.
C30_TeardownDeregisters ==
  [][\A c \in CloneIds :
       (/\ clones[c].born /\ ~clones[c].attached
        /\ alive[clones[c].input]
        /\ last'.clone = c /\ last'.op \in EventOps) =>
         /\ clones'[c] = clones[c]
         /\ ~Occurs("update", last'.trace)]_vars

\* C31: when an input event is dispatched on the input, the mirror's text
\* and layout are synchronized before any other listener of that event runs:
\* no other listener of the event sees a mirror that is out of date.
C31_OtherListenersSeeFresh ==
  [][last'.op = "input" => ~Occurs("listener:stale", last'.trace)]_vars

\* C32: a single input event produces two update notifications, one from
\* the text sync and one from the layout pass it triggers.
C32_TwoUpdatesPerInput ==
  [][\A c \in CloneIds :
       (last'.op = "input" /\ last'.clone = c) =>
         Count("update", last'.trace) = 2]_vars

\* C32 as amended: the handler of an input event writes the text and emits
\* no notification of its own; in InputStyleClone it runs one layout pass at
\* once, which emits the one update notification of the event, and in
\* InputStyleCloneElement it emits none and leaves a frame pending whose
\* layout pass will emit one.
C32_OneUpdatePerInput ==
  [][\A c \in CloneIds :
       (last'.op = "input" /\ last'.clone = c) =>
         /\ Count("text", last'.trace) = 1
         /\ IF variant = "InputStyleClone"
              THEN /\ Count("layout", last'.trace) = 1
                   /\ Count("update", last'.trace) = 1
              ELSE /\ Count("layout", last'.trace) = 0
                   /\ Count("update", last'.trace) = 0
                   /\ clones'[c].isLayoutUpdating
                   /\ clones'[c].frames > 0]_vars

\* C32 witness: the handler of an input event has run on an InputStyleClone
\* and has emitted exactly one update notification, after the layout pass.
C32_Witness ==
  /\ variant = "InputStyleClone"
  /\ last.op = "input"
  /\ last.trace = <<"text", "layout", "update">>

\* the steps in which the old mirror of range r copies the input's style
StyleCopied(r) ==
  /\ last'.clone = r
  /\ last'.op \in {"newRange", "styleCloneCallback"}
  /\ ranges'[r].styleClone

\* C33: in the style copy, when the input's box-sizing is border-box and the
\* input is multi-line, the mirror's width is (computed width - left border
\* - right border) on Firefox and (client width + left border + right
\* border) on the other engines; for a single-line input or any other
\* box-sizing the computed width is copied as it is.
C33_WidthRule ==
  [][\A r \in RangeIds :
       StyleCopied(r) =>
         LET i  == ranges'[r].input
             st == getComputedStyle(i)
             b  == st["borderLeftWidth"] + st["borderRightWidth"]
         IN  ranges'[r].clone.style["width"] =
               IF st["boxSizing"] = 1 /\ ~isInput(i)
                 THEN IF isFirefox THEN st["width"] - b
                                   ELSE InputClientWidth(i) + b
                 ELSE st["width"]]_vars

\* C33 witness: the mirror of a border-box textarea with borders and a
\* vertical scrollbar has just copied the style on an engine other than
\* Firefox, and its width is the client width plus the borders, which is
\* not the computed width.
C33_Witness ==
  \E r \in RangeIds :
    /\ last.clone = r /\ last.op = "styleCloneCallback"
    /\ ~isFirefox
    /\ ~isInput(ranges[r].input)
    /\ getComputedStyle(ranges[r].input)["boxSizing"] = 1
    /\ InputGeometry(ranges[r].input).barW > 0
    /\ ranges[r].clone.style["width"] =
         InputClientWidth(ranges[r].input)
           + getComputedStyle(ranges[r].input)["borderLeftWidth"]
           + getComputedStyle(ranges[r].input)["borderRightWidth"]
    /\ ranges[r].clone.style["width"]
         # getComputedStyle(ranges[r].input)["width"]

\* the mirror is in the document with its observers and listeners registered
Connected(c) ==
  /\ clones[c].born
  /\ clones[c].attached
  /\ clones[c].styleObserver
  /\ clones[c].resizeObserver
  /\ clones[c].documentListener
  /\ clones[c].windowListener
  /\ clones[c].inputListener

\* C34: the cache never maps an input to a mirror that has been torn down,
\* and the instance that for(input) has just returned is connected, also
\* after a disconnect() of the instance that was shared before.
C34_CachedIsConnected ==
  /\ \A i \in Inputs :
       registry[i] # None =>
         Connected(registry[i]) /\ clones[registry[i]].input = i
  /\ last.op \in {"for", "query"} => Connected(last.clone)

\* C34 witness: for(input) has just returned a connected second instance
\* after the instance that was shared before was disconnected.
C34_Witness ==
  \E i \in Inputs, c, d \in Born :
    /\ c # d
    /\ clones[c].input = i /\ clones[d].input = i
    /\ TornDown(c) /\ ~clones[c].inputListener
    /\ last.op = "for" /\ last.clone = d
    /\ registry[i] = d
    /\ Connected(d)

\* a scroll event was forwarded to the scheduler of mirror c by the handler
\* that ran last
ScrollSignal(c) ==
  /\ last.clone = c /\ last.op = "scroll"
  /\ last.trace \in {<<"requested">>, <<"dropped">>}

\* the mirror's scroll offsets are the input's
ScrollCopied(c) ==
  /\ clones[c].scrollTop = InputGeometry(clones[c].input).scrollTop
  /\ clones[c].scrollLeft = InputGeometry(clones[c].input).scrollLeft

\* a scroll event whose target is the input of mirror c, which resolves,
\* reaches #requestUpdateLayout: a frame is pending afterwards
InputScrollForwarded ==
  [][\A c \in CloneIds :
       (alive[clones[c].input] /\ DocumentScroll(c, clones[c].input)) =>
         /\ last'.trace \in {<<"requested">>, <<"dropped">>}
         /\ clones'[c].isLayoutUpdating
         /\ clones'[c].frames > 0]_vars

\* C35: a scroll event whose target is the input itself passes the
\* containment filter and requests a layout pass, and with frames firing
\* the frame callback then leaves the mirror's scroll offsets equal to the
\* input's.
C35_InputScrollLeadsToCopy ==
  /\ InputScrollForwarded
  /\ \A c \in CloneIds : ScrollSignal(c) ~> (FrameRan(c) /\ ScrollCopied(c))

\* C35 as amended: a scroll event whose target is the input itself passes
\* the containment filter and requests a layout pass, and with frames firing
\* the frame callback runs; if at that time the input is still resolvable
\* and the mirror is still in the document and holds the input's value, the
\* mirror's scroll offsets are then equal to the input's.
C35_InputScrollLeadsToCopyInSync ==
  /\ InputScrollForwarded
  /\ \A c \in CloneIds :
       ScrollSignal(c) ~>
         (/\ FrameRan(c)
          /\ (/\ alive[clones[c].input]
              /\ clones[c].attached
              /\ clones[c].text = value[clones[c].input]) => ScrollCopied(c))

\* C35 witness: the frame callback ran on a connected mirror that holds the
\* text of its scrolled input, and the mirror is scrolled as the input is.
C35_Witness ==
  \E c \in Born :
    /\ FrameRan(c)
    /\ alive[clones[c].input] /\ clones[c].attached
    /\ clones[c].text = value[clones[c].input]
    /\ InputGeometry(clones[c].input).scrollTop > 0
    /\ ScrollCopied(c)

\* C36: setStartOffset(o) never changes endOffset and setEndOffset(o) never
\* changes startOffset; the bounds are not reordered by the setters and not
\* by the queries that build a native range from them, so a range whose
\* start is after its end stays as it is.
C36_BoundsIndependent ==
  [][\A r \in RangeIds :
       /\ (\E o \in Offsets : SetStartOffset(r, o)) =>
            ranges'[r].endOffset = ranges[r].endOffset
       /\ (\E o \in Offsets : SetEndOffset(r, o)) =>
            ranges'[r].startOffset = ranges[r].startOffset
       /\ (\E op \in QueryOps : SharedQuery(r, op)) =>
            /\ ranges'[r].startOffset = ranges[r].startOffset
            /\ ranges'[r].endOffset = ranges[r].endOffset]_vars

\* C36 witness: a query has just answered for a range whose start offset is
\* after its end offset, and both offsets are still in the range.
C36_Witness ==
  \E r \in RangeIds :
    /\ last.clone = r /\ last.op \in QueryOps
    /\ answer # NoAnswer
    /\ ranges[r].made
    /\ ranges[r].startOffset > ranges[r].endOffset

\* the steps in which a synchronization handler of mirror c runs while the
\* input is unresolvable
SyncWhenGone(c) ==
  /\ clones[c].born
  /\ ~alive[clones[c].input]
  /\ last'.clone = c /\ last'.op \in SyncOps

\* a second disconnect() right after the first changes nothing of the
\* mirrors, their listeners and the cache
SecondDisconnectIdle ==
  [][\A c \in CloneIds :
       (last.op = "disconnect" /\ last.clone = c /\ Disconnect(c)) =>
         /\ clones' = clones
         /\ registry' = registry
         /\ Count("teardown", last'.trace) <= 1]_vars

\* C37: teardown of an InputStyleClone terminates and is idempotent: a
\* synchronization step that finds the input unresolvable calls disconnect()
\* exactly once, and a second disconnect() leaves the mirror, the listeners
\* and the cache as the first call left them.
C37_TeardownOnce ==
  /\ [][\A c \in CloneIds :
          (variant = "InputStyleClone" /\ SyncWhenGone(c)) =>
            /\ Count("teardown", last'.trace) = 1
            /\ TornDown(c)']_vars
  /\ SecondDisconnectIdle

\* C37 as amended: every #usingInput call that finds the input unresolvable
\* calls disconnect() once, and disconnect() calls nothing back; a handler
\* that makes one such call runs disconnect() once, forceUpdate() of
\* InputStyleClone makes two and runs it twice, the second time without
\* effect; the clean-up of InputStyleCloneElement is remove(), which runs
\* the teardown once if the element is still connected and not at all
\* otherwise; a second disconnect() leaves the mirror, the listeners and the
\* cache as the first call left them.
C37_TeardownPerUsingInput ==
  /\ [][\A c \in CloneIds :
          SyncWhenGone(c) =>
            /\ Count("teardown", last'.trace) =
                 IF variant = "InputStyleClone"
                   THEN IF last'.op = "forceUpdate" THEN 2 ELSE 1
                   ELSE IF clones[c].attached THEN 1 ELSE 0
            /\ \A e \in {"style", "text", "layout", "update", "requested"} :
                 ~Occurs(e, last'.trace)
            /\ TornDown(c)'
            /\ TornDown(c) =>
                 [clones'[c] EXCEPT !.frames = 0,
                                    !.isLayoutUpdating = FALSE]
                   = [clones[c] EXCEPT !.frames = 0,
                                       !.isLayoutUpdating = FALSE]]_vars
  /\ SecondDisconnectIdle

\* C37 witness: forceUpdate() of an InputStyleClone found the input
\* collected and ran disconnect() twice; the mirror is torn down.
C37_Witness ==
  \E c \in Born :
    /\ variant = "InputStyleClone"
    /\ last.clone = c /\ last.op = "forceUpdate"
    /\ ~alive[clones[c].input]
    /\ last.trace = <<"teardown", "teardown">>
    /\ TornDown(c)

\* C38: in the mirror of input-clone.ts, a read of inputElement or of
\* cloneElement after the input has been collected terminates: it returns
\* without overflowing the call stack, both observers of the instance are
\* disconnected and the div of the input is out of the document.
C38_ReadAfterCollectReturns ==
  \A c \in Born :
    (/\ last.clone = c
     /\ last.op \in {"inputElement", "cloneElement"}
     /\ ~alive[clones[c].input]) =>
       /\ ~Occurs("RangeError", last.trace)
       /\ ~clones[c].styleObserver /\ ~clones[c].resizeObserver
       /\ \A d \in Born :
            clones[d].input = clones[c].input => ~clones[d].attached

\* C39: in the mirror of input-clone.ts, when the constructor of the first
\* instance for an input returns, the new div carries the input's copied
\* style properties.
C39_InitialStyleApplied ==
  \A c \in Born :
    (/\ last.clone = c /\ last.op = "new"
     /\ variant = "input-clone.ts"
     /\ registry[clones[c].input] = c) =>
       clones[c].style =
         styleCloneUpdateStyles(NoStyleClone, clones[c].input).style

====
